---- MODULE Spec2Model ----
(***************************************************************************)
(* jinja2-django-tags (jdj_tags/extensions.py): the tag grammars that the  *)
(* extensions add to the jinja2 parser, as state machines over a token     *)
(* stream.                                                                 *)
(*                                                                         *)
(*   stream  the tokens of the tag, beginning at the tag-name token (the   *)
(*           token that is current when jinja2 calls Extension.parse)      *)
(*   pos     index of parser.stream.current in stream; Len(stream) + 1 and *)
(*           beyond is the end-of-template token                           *)
(*   pc      the position of the running parse method                      *)
(*   loc     the local variables of the running parse method               *)
(*   result  the AST node the parse method returned, if it returned        *)
(*   error   the exception the parse method raised, if it raised           *)
(*                                                                         *)
(* Every token of a stream lies on a line of its own (lineno = its index), *)
(* so that the line an error reports identifies the token it was raised at.*)
(*                                                                         *)
(* The specifications that are no parse (the call of _make_blocktrans, the *)
(* construction of DjangoL10n and of DjangoCompat) keep the arguments of   *)
(* the call and the environment in loc and leave stream empty.             *)
(***************************************************************************)
EXTENDS Integers, Sequences, FiniteSets, TLC

VARIABLES stream, pos, pc, loc, result, error

vars == <<stream, pos, pc, loc, result, error>>

\* ------------------------------------------------------------ bounds

\* longest argument list (tokens after the view name) of a url tag
MaxUrlArgs == 5

\* longest modifier list (tokens after the message) of a trans tag
MaxTransMods == 5

\* longest body (pieces of text, variables, plural markers) of a blocktrans tag
MaxBodyItems == 3

\* ------------------------------------------------------------ Python values

\* Python's None and a value that is not None, for variables that hold either
None == <<>>
Some(x) == <<x>>
IsNone(o) == o = <<>>
Get(o) == o[1]

\* ------------------------------------------------------------ jinja2 tokens

TOKEN_NAME == "name"
TOKEN_STRING == "string"
TOKEN_INTEGER == "integer"
TOKEN_ASSIGN == "assign"
TOKEN_BLOCK_BEGIN == "block_begin"
TOKEN_BLOCK_END == "block_end"
TOKEN_VARIABLE_BEGIN == "variable_begin"
TOKEN_VARIABLE_END == "variable_end"
TOKEN_DATA == "data"
TOKEN_EOF == "eof"

Lexeme(t, v) == [type |-> t, value |-> v]
Token(t, v, l) == [type |-> t, value |-> v, lineno |-> l]

\* a sequence of lexemes as the lexer's tokens, one per line
Lex(lexemes) == [i \in 1..Len(lexemes) |->
                    Token(lexemes[i].type, lexemes[i].value, i)]

\* parser.stream.current: past the last token the stream is closed and
\* current is an end-of-template token on the last token's line
Current(s, p) ==
    IF p <= Len(s) THEN s[p]
    ELSE Token(TOKEN_EOF, "", IF Len(s) = 0 THEN 1 ELSE s[Len(s)].lineno)

\* next(parser.stream): the position after consuming the current token
Advance(s, p) == IF p <= Len(s) THEN p + 1 ELSE p

\* parser.stream.look(): the token after the current one
Look(s, p) == Current(s, Advance(s, p))

\* Token.test(expr) for expr 'type' and 'type:value'
TestType(tok, t) == tok.type = t
TestName(tok, v) == tok.type = TOKEN_NAME /\ tok.value = v

\* lexer.describe_token
describe_token(tok) ==
    CASE tok.type = TOKEN_NAME -> tok.value
      [] tok.type = TOKEN_ASSIGN -> "="
      [] tok.type = TOKEN_BLOCK_BEGIN -> "begin of statement block"
      [] tok.type = TOKEN_BLOCK_END -> "end of statement block"
      [] tok.type = TOKEN_VARIABLE_BEGIN -> "begin of print statement"
      [] tok.type = TOKEN_VARIABLE_END -> "end of print statement"
      [] tok.type = TOKEN_DATA -> "template data / text"
      [] tok.type = TOKEN_EOF -> "end of template"
      [] OTHER -> tok.type

\* ------------------------------------------------------------ errors

TemplateSyntaxError(msg, lineno) ==
    [exc |-> "TemplateSyntaxError", msg |-> msg, lineno |-> lineno]

\* the error of parser.stream.expect(t) at a token that fails the test
ExpectError(tok, what) ==
    IF tok.type = TOKEN_EOF
    THEN TemplateSyntaxError("unexpected end of template, expected '" \o what \o "'.",
                             tok.lineno)
    ELSE TemplateSyntaxError("expected token '" \o what \o "', got '"
                                 \o describe_token(tok) \o "'",
                             tok.lineno)

\* ------------------------------------------------------------ AST nodes

Const(v, l) == [node |-> "Const", value |-> v, lineno |-> l]
Name(n, ctx, l) == [node |-> "Name", name |-> n, ctx |-> ctx, lineno |-> l]
Keyword(k, v) == [node |-> "Keyword", key |-> k, value |-> v]
KeywordAt(k, v, l) == [node |-> "Keyword", key |-> k, value |-> v, lineno |-> l]
Pair(k, v, l) == [node |-> "Pair", key |-> k, value |-> v, lineno |-> l]
Dict(items, l) == [node |-> "Dict", items |-> items, lineno |-> l]
TemplateData(d, l) == [node |-> "TemplateData", data |-> d, lineno |-> l]
MarkSafe(e, l) == [node |-> "MarkSafe", expr |-> e, lineno |-> l]
Call(f, a, k, l) == [node |-> "Call", func |-> f, args |-> a, kwargs |-> k, lineno |-> l]
Output(ns, l) == [node |-> "Output", nodes |-> ns, lineno |-> l]
Assign(t, v, l) == [node |-> "Assign", target |-> t, value |-> v, lineno |-> l]
\* Extension.attr(name): the reference to a method of the extension
ExtensionAttribute(n, l) == [node |-> "ExtensionAttribute", name |-> n, lineno |-> l]
\* Extension.call_method(name, args, kwargs, lineno): None becomes []
call_method(n, a, k, l) ==
    Call(ExtensionAttribute(n, l),
         IF IsNone(a) THEN <<>> ELSE Get(a),
         IF IsNone(k) THEN <<>> ELSE Get(k), l)

\* ------------------------------------------------------------ host expression parser

\* the result of a sub-parse: the node and the position after it, or an error
Parsed(n, p) == [ok |-> TRUE, expr |-> n, pos |-> p]
Failed(e) == [ok |-> FALSE, err |-> e]

\* the position after the run of string tokens that begins at p
RECURSIVE StringRunEnd(_, _)
StringRunEnd(s, p) ==
    IF Current(s, p).type = TOKEN_STRING THEN StringRunEnd(s, p + 1) ELSE p

\* the values of the string tokens p..q-1 joined
RECURSIVE JoinStrings(_, _, _)
JoinStrings(s, p, q) ==
    IF p >= q THEN "" ELSE s[p].value \o JoinStrings(s, p + 1, q)

\* parser.parse_expression(False) on the primaries of the model's alphabet:
\* a name, an integer, or a run of adjacent string literals, which jinja2
\* joins into one constant; any other token cannot begin an expression
HostParseExpression(s, p) ==
    LET tok == Current(s, p) IN
    CASE tok.type = TOKEN_NAME -> Parsed(Name(tok.value, "load", tok.lineno), p + 1)
      [] tok.type = TOKEN_INTEGER -> Parsed(Const(tok.value, tok.lineno), p + 1)
      [] tok.type = TOKEN_STRING ->
            Parsed(Const(JoinStrings(s, p, StringRunEnd(s, p)), tok.lineno),
                   StringRunEnd(s, p))
      [] OTHER ->
            Failed(TemplateSyntaxError("unexpected '" \o describe_token(tok) \o "'",
                                       tok.lineno))

\* ------------------------------------------------------------ DjangoUrl

\* every argument left to the host parser, which joins adjacent string literals
UrlParseExpressionHost(s, p) == HostParseExpression(s, p)

\* DjangoUrl.parse_expression: a string literal is one argument of its own
UrlParseExpression(s, p) ==
    LET token == Current(s, p) IN
    IF TestType(token, TOKEN_STRING)
    THEN Parsed(Const(token.value, token.lineno), Advance(s, p))
    ELSE HostParseExpression(s, p)

\* kwargs[arg] = value on a dict kept as its items in insertion order
DictSet(d, k, v) ==
    IF \E i \in 1..Len(d) : d[i][1] = k
    THEN [i \in 1..Len(d) |-> IF d[i][1] = k THEN <<k, v>> ELSE d[i]]
    ELSE Append(d, <<k, v>>)

Fail(e) ==
    /\ pc' = "failed"
    /\ error' = Some(e)
    /\ UNCHANGED <<stream, loc, result>>

\* lines 425-431: the tag name, the view name, the three locals
UrlBegin ==
    /\ pc = "url_begin"
    /\ LET lineno == Current(stream, pos).lineno
           p1 == Advance(stream, pos)
           view_name == Current(stream, p1)
       IN IF TestType(view_name, TOKEN_STRING)
          THEN /\ pos' = Advance(stream, p1)
               /\ loc' = [lineno |-> lineno,
                          view_name |-> Const(view_name.value, view_name.lineno),
                          args |-> None, kwargs |-> None, as_var |-> None]
               /\ pc' = "url_loop"
               /\ UNCHANGED <<stream, result, error>>
          ELSE /\ pos' = p1
               /\ Fail(ExpectError(view_name, TOKEN_STRING))

\* line 433: the loop ends at the closing delimiter
UrlLoopEnd ==
    /\ pc = "url_loop"
    /\ Current(stream, pos).type = TOKEN_BLOCK_END
    /\ pc' = "url_emit"
    /\ UNCHANGED <<stream, pos, loc, result, error>>

\* lines 435-439: 'as' NAME ends the loop
UrlAs ==
    /\ pc = "url_loop"
    /\ Current(stream, pos).type # TOKEN_BLOCK_END
    /\ TestName(Current(stream, pos), "as")
    /\ LET p1 == Advance(stream, pos)
           token == Current(stream, p1)
       IN IF TestType(token, TOKEN_NAME)
          THEN /\ pos' = Advance(stream, p1)
               /\ loc' = [loc EXCEPT !.as_var = Some(Name(token.value, "store", token.lineno))]
               /\ pc' = "url_emit"
               /\ UNCHANGED <<stream, result, error>>
          ELSE /\ pos' = p1
               /\ Fail(ExpectError(token, TOKEN_NAME))

\* a positional branch that takes NAME '=' value as a keyword argument
UrlPositionalMixed ==
    /\ pc = "url_loop"
    /\ Current(stream, pos).type # TOKEN_BLOCK_END
    /\ ~TestName(Current(stream, pos), "as")
    /\ ~IsNone(loc.args)
    /\ LET token == Current(stream, pos)
           mixed == token.type = TOKEN_NAME /\ Look(stream, pos).type = TOKEN_ASSIGN
           r == UrlParseExpression(stream, IF mixed THEN pos + 2 ELSE pos)
       IN IF r.ok
          THEN /\ pos' = r.pos
               /\ loc' = IF mixed
                         THEN [loc EXCEPT !.kwargs =
                                 Some(DictSet(IF IsNone(loc.kwargs) THEN <<>>
                                              ELSE Get(loc.kwargs),
                                              token.value, r.expr))]
                         ELSE [loc EXCEPT !.args = Some(Append(Get(loc.args), r.expr))]
               /\ UNCHANGED <<stream, pc, result, error>>
          ELSE /\ UNCHANGED pos
               /\ Fail(r.err)

\* lines 440-441: positional mode
UrlPositional ==
    /\ pc = "url_loop"
    /\ Current(stream, pos).type # TOKEN_BLOCK_END
    /\ ~TestName(Current(stream, pos), "as")
    /\ ~IsNone(loc.args)
    /\ LET r == UrlParseExpression(stream, pos)
       IN IF r.ok
          THEN /\ pos' = r.pos
               /\ loc' = [loc EXCEPT !.args = Some(Append(Get(loc.args), r.expr))]
               /\ UNCHANGED <<stream, pc, result, error>>
          ELSE /\ UNCHANGED pos
               /\ Fail(r.err)

\* a keyword branch without the check of lines 443-448
UrlKeywordUnchecked ==
    /\ pc = "url_loop"
    /\ Current(stream, pos).type # TOKEN_BLOCK_END
    /\ ~TestName(Current(stream, pos), "as")
    /\ IsNone(loc.args)
    /\ ~IsNone(loc.kwargs)
    /\ LET token == Current(stream, pos)
           p1 == Advance(stream, pos)
           eq == Current(stream, p1)
           r == UrlParseExpression(stream, Advance(stream, p1))
       IN IF ~TestType(eq, TOKEN_ASSIGN)
          THEN /\ pos' = p1
               /\ Fail(ExpectError(eq, TOKEN_ASSIGN))
          ELSE IF ~r.ok
          THEN /\ pos' = Advance(stream, p1)
               /\ Fail(r.err)
          ELSE /\ pos' = r.pos
               /\ loc' = [loc EXCEPT
                            !.kwargs = Some(DictSet(Get(loc.kwargs), token.value, r.expr))]
               /\ UNCHANGED <<stream, pc, result, error>>

\* lines 442-453: keyword mode
UrlKeyword ==
    /\ pc = "url_loop"
    /\ Current(stream, pos).type # TOKEN_BLOCK_END
    /\ ~TestName(Current(stream, pos), "as")
    /\ IsNone(loc.args)
    /\ ~IsNone(loc.kwargs)
    /\ LET token == Current(stream, pos)
           p1 == Advance(stream, pos)
           eq == Current(stream, p1)
           r == UrlParseExpression(stream, Advance(stream, p1))
       IN IF token.type # TOKEN_NAME
          THEN /\ UNCHANGED pos
               /\ Fail(TemplateSyntaxError(
                         "got '" \o describe_token(token)
                             \o "', expected name for keyword argument",
                         token.lineno))
          ELSE IF ~TestType(eq, TOKEN_ASSIGN)
          THEN /\ pos' = p1
               /\ Fail(ExpectError(eq, TOKEN_ASSIGN))
          ELSE IF ~r.ok
          THEN /\ pos' = Advance(stream, p1)
               /\ Fail(r.err)
          ELSE /\ pos' = r.pos
               /\ loc' = [loc EXCEPT
                            !.kwargs = Some(DictSet(Get(loc.kwargs), token.value, r.expr))]
               /\ UNCHANGED <<stream, pc, result, error>>

\* the mode decided on the current token instead of the one after it
UrlIsKeywordCurrent(s, p) == Current(s, p).type = TOKEN_ASSIGN

\* line 455: the test that decides the mode, on the token after the current one
UrlIsKeyword(s, p) == Look(s, p).type = TOKEN_ASSIGN

\* a mode-deciding iteration that continues without setting args or kwargs
UrlDecideModeForgets ==
    /\ pc = "url_loop"
    /\ Current(stream, pos).type # TOKEN_BLOCK_END
    /\ ~TestName(Current(stream, pos), "as")
    /\ IsNone(loc.args)
    /\ IsNone(loc.kwargs)
    /\ UNCHANGED <<stream, pos, pc, loc, result, error>>

\* lines 454-459: the first argument decides the mode; no token is consumed
UrlDecideMode ==
    /\ pc = "url_loop"
    /\ Current(stream, pos).type # TOKEN_BLOCK_END
    /\ ~TestName(Current(stream, pos), "as")
    /\ IsNone(loc.args)
    /\ IsNone(loc.kwargs)
    /\ loc' = IF UrlIsKeyword(stream, pos)
              THEN [loc EXCEPT !.kwargs = Some(<<>>)]
              ELSE [loc EXCEPT !.args = Some(<<>>)]
    /\ UNCHANGED <<stream, pos, pc, result, error>>

\* lines 461-468: the call of _url_reverse
UrlCall(l) ==
    LET args == <<l.view_name>> \o (IF IsNone(l.args) THEN <<>> ELSE Get(l.args))
        kwargs == IF IsNone(l.kwargs) THEN None
                  ELSE Some([i \in 1..Len(Get(l.kwargs)) |->
                               Keyword(Get(l.kwargs)[i][1], Get(l.kwargs)[i][2])])
    IN call_method("_url_reverse", Some(args), kwargs, l.lineno)

\* lines 461-472: the node the tag compiles to
UrlEmit ==
    /\ pc = "url_emit"
    /\ result' = Some(IF IsNone(loc.as_var)
                      THEN Output(<<UrlCall(loc)>>, loc.lineno)
                      ELSE Assign(Get(loc.as_var), UrlCall(loc), loc.lineno))
    /\ pc' = "done"
    /\ UNCHANGED <<stream, pos, loc, error>>

\* ------------------------------------------------------------ url tags

\* sequences over S of length at most n
SeqUpTo(S, n) == UNION {[1..k -> S] : k \in 0..n}

\* the closing delimiter ends a tag: nothing of the tag follows it
EndsAtBlockEnd(q) ==
    \A i \in 1..Len(q) : q[i].type = TOKEN_BLOCK_END => i = Len(q)

UrlArgLexemes ==
    { Lexeme(TOKEN_STRING, "a"), Lexeme(TOKEN_STRING, "b"),
      Lexeme(TOKEN_NAME, "as"), Lexeme(TOKEN_NAME, "k"),
      Lexeme(TOKEN_ASSIGN, "="), Lexeme(TOKEN_INTEGER, "1"),
      Lexeme(TOKEN_BLOCK_END, "%}") }

UrlViewLexemes == { Lexeme(TOKEN_STRING, "v"), Lexeme(TOKEN_INTEGER, "1") }

\* {% url <view> <at most MaxUrlArgs tokens>, closed or cut off by the end
\* of the template
IsUrlStream(st) ==
    \E v \in UrlViewLexemes, q \in SeqUpTo(UrlArgLexemes, MaxUrlArgs) :
        /\ EndsAtBlockEnd(q)
        /\ st = Lex(<<Lexeme(TOKEN_NAME, "url"), v>> \o q)

InitUrl ==
    /\ IsUrlStream(stream)
    /\ pos = 1
    /\ pc = "url_begin"
    /\ loc = <<>>
    /\ result = None
    /\ error = None

NextUrl ==
    \/ UrlBegin
    \/ UrlLoopEnd
    \/ UrlAs
    \/ UrlPositional
    \/ UrlKeyword
    \/ UrlDecideMode
    \/ UrlEmit

SpecUrl == InitUrl /\ [][NextUrl]_vars

\* ------------------------------------------------------------ DjangoI18n: trans

\* lines 275-280: the tag name decides between the two grammars
I18nParse ==
    /\ pc = "i18n_parse"
    /\ LET token == Current(stream, pos)
       IN /\ pos' = Advance(stream, pos)
          /\ loc' = [lineno |-> token.lineno]
          /\ pc' = IF token.value = "blocktrans" THEN "bt_trimmed" ELSE "trans_begin"
    /\ UNCHANGED <<stream, result, error>>

\* lines 98-102: the message and the three locals
TransBegin ==
    /\ pc = "trans_begin"
    /\ LET string == Current(stream, pos)
       IN IF TestType(string, TOKEN_STRING)
          THEN /\ pos' = Advance(stream, pos)
               /\ loc' = [lineno |-> loc.lineno,
                          string |-> Const(string.value, string.lineno),
                          is_noop |-> FALSE, context |-> None, as_var |-> None]
               /\ pc' = "trans_loop"
               /\ UNCHANGED <<stream, result, error>>
          ELSE /\ UNCHANGED pos
               /\ Fail(ExpectError(string, TOKEN_STRING))

\* line 103: next_if(TOKEN_NAME) returns None and the loop ends
TransLoopEnd ==
    /\ pc = "trans_loop"
    /\ Current(stream, pos).type # TOKEN_NAME
    /\ pc' = "trans_emit"
    /\ UNCHANGED <<stream, pos, loc, result, error>>

\* lines 104-107: noop
TransNoop ==
    /\ pc = "trans_loop"
    /\ Current(stream, pos).type = TOKEN_NAME
    /\ LET token == Current(stream, pos)
       IN /\ token.value = "noop" /\ ~loc.is_noop
          /\ pos' = Advance(stream, pos)
          /\ IF ~IsNone(loc.context)
             THEN Fail(TemplateSyntaxError("noop translation can't have context",
                                           token.lineno))
             ELSE /\ loc' = [loc EXCEPT !.is_noop = TRUE]
                  /\ UNCHANGED <<stream, pc, result, error>>

\* a context branch without the check of lines 109-110
TransContextUnchecked ==
    /\ pc = "trans_loop"
    /\ Current(stream, pos).type = TOKEN_NAME
    /\ LET token == Current(stream, pos)
           p1 == Advance(stream, pos)
           context == Current(stream, p1)
       IN /\ ~(token.value = "noop" /\ ~loc.is_noop)
          /\ token.value = "context" /\ IsNone(loc.context)
          /\ IF ~TestType(context, TOKEN_STRING)
             THEN /\ pos' = p1
                  /\ Fail(ExpectError(context, TOKEN_STRING))
             ELSE /\ pos' = Advance(stream, p1)
                  /\ loc' = [loc EXCEPT
                               !.context = Some(Const(context.value, context.lineno))]
                  /\ UNCHANGED <<stream, pc, result, error>>

\* lines 108-112: context STRING
TransContext ==
    /\ pc = "trans_loop"
    /\ Current(stream, pos).type = TOKEN_NAME
    /\ LET token == Current(stream, pos)
           p1 == Advance(stream, pos)
           context == Current(stream, p1)
       IN /\ ~(token.value = "noop" /\ ~loc.is_noop)
          /\ token.value = "context" /\ IsNone(loc.context)
          /\ IF loc.is_noop
             THEN /\ pos' = p1
                  /\ Fail(TemplateSyntaxError("noop translation can't have context",
                                              token.lineno))
             ELSE IF ~TestType(context, TOKEN_STRING)
             THEN /\ pos' = p1
                  /\ Fail(ExpectError(context, TOKEN_STRING))
             ELSE /\ pos' = Advance(stream, p1)
                  /\ loc' = [loc EXCEPT
                               !.context = Some(Const(context.value, context.lineno))]
                  /\ UNCHANGED <<stream, pc, result, error>>

\* an 'as' branch that leaves the loop, as the one of the url tag does
TransAsBreak ==
    /\ pc = "trans_loop"
    /\ Current(stream, pos).type = TOKEN_NAME
    /\ LET token == Current(stream, pos)
           p1 == Advance(stream, pos)
           as_var == Current(stream, p1)
       IN /\ ~(token.value = "noop" /\ ~loc.is_noop)
          /\ ~(token.value = "context" /\ IsNone(loc.context))
          /\ token.value = "as" /\ IsNone(loc.as_var)
          /\ IF ~TestType(as_var, TOKEN_NAME)
             THEN /\ pos' = p1
                  /\ Fail(ExpectError(as_var, TOKEN_NAME))
             ELSE /\ pos' = Advance(stream, p1)
                  /\ loc' = [loc EXCEPT
                               !.as_var = Some(Name(as_var.value, "store", as_var.lineno))]
                  /\ pc' = "trans_emit"
                  /\ UNCHANGED <<stream, result, error>>

\* lines 113-115: as NAME
TransAs ==
    /\ pc = "trans_loop"
    /\ Current(stream, pos).type = TOKEN_NAME
    /\ LET token == Current(stream, pos)
           p1 == Advance(stream, pos)
           as_var == Current(stream, p1)
       IN /\ ~(token.value = "noop" /\ ~loc.is_noop)
          /\ ~(token.value = "context" /\ IsNone(loc.context))
          /\ token.value = "as" /\ IsNone(loc.as_var)
          /\ IF ~TestType(as_var, TOKEN_NAME)
             THEN /\ pos' = p1
                  /\ Fail(ExpectError(as_var, TOKEN_NAME))
             ELSE /\ pos' = Advance(stream, p1)
                  /\ loc' = [loc EXCEPT
                               !.as_var = Some(Name(as_var.value, "store", as_var.lineno))]
                  /\ UNCHANGED <<stream, pc, result, error>>

\* the failure of lines 116-117 without lineno=token.lineno: parser.fail
\* then takes the line of the token the stream is at
TransUnexpectedAtCurrent ==
    /\ pc = "trans_loop"
    /\ Current(stream, pos).type = TOKEN_NAME
    /\ LET token == Current(stream, pos)
       IN /\ ~(token.value = "noop" /\ ~loc.is_noop)
          /\ ~(token.value = "context" /\ IsNone(loc.context))
          /\ ~(token.value = "as" /\ IsNone(loc.as_var))
          /\ pos' = Advance(stream, pos)
          /\ Fail(TemplateSyntaxError("expected 'noop', 'context' or 'as'",
                                      Current(stream, Advance(stream, pos)).lineno))

\* lines 116-117: any other name, and a modifier given a second time
TransUnexpected ==
    /\ pc = "trans_loop"
    /\ Current(stream, pos).type = TOKEN_NAME
    /\ LET token == Current(stream, pos)
       IN /\ ~(token.value = "noop" /\ ~loc.is_noop)
          /\ ~(token.value = "context" /\ IsNone(loc.context))
          /\ ~(token.value = "as" /\ IsNone(loc.as_var))
          /\ pos' = Advance(stream, pos)
          /\ Fail(TemplateSyntaxError("expected 'noop', 'context' or 'as'",
                                      token.lineno))

\* a translation call for a noop message too
TransValueAlwaysCalls(l) ==
    IF ~IsNone(l.context)
    THEN Call(Name("pgettext", "load", l.lineno), <<Get(l.context), l.string>>, <<>>,
              l.lineno)
    ELSE Call(Name("gettext", "load", 0), <<l.string>>, <<>>, l.lineno)

\* lines 118-125: the value of the tag; the Name of line 124 has no lineno
TransValue(l) ==
    IF l.is_noop THEN l.string
    ELSE IF ~IsNone(l.context)
    THEN Call(Name("pgettext", "load", l.lineno), <<Get(l.context), l.string>>, <<>>,
              l.lineno)
    ELSE Call(Name("gettext", "load", 0), <<l.string>>, <<>>, l.lineno)

\* lines 118-130: the node the tag compiles to
TransEmit ==
    /\ pc = "trans_emit"
    /\ result' = Some(IF IsNone(loc.as_var)
                      THEN Output(<<TransValue(loc)>>, loc.lineno)
                      ELSE Assign(Get(loc.as_var), TransValue(loc), loc.lineno))
    /\ pc' = "done"
    /\ UNCHANGED <<stream, pos, loc, error>>

\* ------------------------------------------------------------ trans tags

TransModLexemes ==
    { Lexeme(TOKEN_STRING, "c"),
      Lexeme(TOKEN_NAME, "noop"), Lexeme(TOKEN_NAME, "context"),
      Lexeme(TOKEN_NAME, "as"), Lexeme(TOKEN_NAME, "v"),
      Lexeme(TOKEN_BLOCK_END, "%}") }

TransMsgLexemes == { Lexeme(TOKEN_STRING, "m"), Lexeme(TOKEN_NAME, "v") }

\* {% trans <message> <at most MaxTransMods tokens>, closed or cut off by the
\* end of the template
IsTransStream(st) ==
    \E m \in TransMsgLexemes, q \in SeqUpTo(TransModLexemes, MaxTransMods) :
        /\ EndsAtBlockEnd(q)
        /\ st = Lex(<<Lexeme(TOKEN_NAME, "trans"), m>> \o q)

InitTrans ==
    /\ IsTransStream(stream)
    /\ pos = 1
    /\ pc = "i18n_parse"
    /\ loc = <<>>
    /\ result = None
    /\ error = None

NextTrans ==
    \/ I18nParse
    \/ TransBegin
    \/ TransLoopEnd
    \/ TransNoop
    \/ TransContext
    \/ TransAs
    \/ TransUnexpected
    \/ TransEmit

SpecTrans == InitTrans /\ [][NextTrans]_vars

\* ------------------------------------------------------------ DjangoI18n: blocktrans

\* Text is a sequence of characters. The names of the variables of a body
\* are one character long, so the characters of a name are the name alone.

\* '%({})s'.format(name)
Placeholder(name) == <<"%", "(", name, ")", "s">>

\* ''.join(pieces)
RECURSIVE JoinText(_)
JoinText(pieces) ==
    IF pieces = <<>> THEN <<>> ELSE Head(pieces) \o JoinText(Tail(pieces))

IsSpace(c) == c \in {" ", "\n", "\t", "\r"}

\* str.strip()
RECURSIVE LStrip(_)
LStrip(t) == IF t # <<>> /\ IsSpace(Head(t)) THEN LStrip(Tail(t)) ELSE t
RECURSIVE RStrip(_)
RStrip(t) ==
    IF t # <<>> /\ IsSpace(t[Len(t)]) THEN RStrip(SubSeq(t, 1, Len(t) - 1)) ELSE t
Strip(t) == RStrip(LStrip(t))

\* str.splitlines(): the lines of t without their line breaks; a line ends
\* at "\n", at "\r" and at "\r\n"
RECURSIVE SplitLines(_)
SplitLines(t) ==
    IF t = <<>> THEN <<>>
    ELSE IF \E i \in 1..Len(t) : t[i] \in {"\n", "\r"}
    THEN LET i == CHOOSE i \in 1..Len(t) :
                    t[i] \in {"\n", "\r"} /\ \A j \in 1..(i - 1) : t[j] \notin {"\n", "\r"}
             next == IF t[i] = "\r" /\ i < Len(t) /\ t[i + 1] = "\n" THEN i + 2 ELSE i + 1
         IN <<SubSeq(t, 1, i - 1)>> \o SplitLines(SubSeq(t, next, Len(t)))
    ELSE <<t>>

\* ' '.join(lines)
RECURSIVE JoinSpace(_)
JoinSpace(lines) ==
    IF lines = <<>> THEN <<>>
    ELSE IF Len(lines) = 1 THEN lines[1]
    ELSE lines[1] \o <<" ">> \o JoinSpace(Tail(lines))

\* lines 228, 233-235: ' '.join(map(lambda s: s.strip(), text.strip().splitlines()))
Trimmed(t) ==
    LET lines == SplitLines(Strip(t))
    IN JoinSpace([i \in 1..Len(lines) |-> Strip(lines[i])])

\* name in with_vars
HasKey(d, k) == \E i \in 1..Len(d) : d[i][1] = k

\* lines 133-140: the locals of the header; trimmed
BtTrimmed ==
    /\ pc = "bt_trimmed"
    /\ LET skip == TestName(Current(stream, pos), "trimmed")
       IN /\ pos' = IF skip THEN Advance(stream, pos) ELSE pos
          /\ loc' = [lineno |-> loc.lineno, with_vars |-> <<>>, count |-> None,
                     context |-> None, trimmed |-> skip, as_var |-> None]
    /\ pc' = "bt_asvar"
    /\ UNCHANGED <<stream, result, error>>

\* lines 142-144: asvar NAME
BtAsvar ==
    /\ pc = "bt_asvar"
    /\ LET p1 == Advance(stream, pos)
           as_var == Current(stream, p1)
       IN IF ~TestName(Current(stream, pos), "asvar")
          THEN /\ pc' = "bt_with"
               /\ UNCHANGED <<stream, pos, loc, result, error>>
          ELSE IF ~TestType(as_var, TOKEN_NAME)
          THEN /\ pos' = p1
               /\ Fail(ExpectError(as_var, TOKEN_NAME))
          ELSE /\ pos' = Advance(stream, p1)
               /\ loc' = [loc EXCEPT
                            !.as_var = Some(Name(as_var.value, "store", as_var.lineno))]
               /\ pc' = "bt_with"
               /\ UNCHANGED <<stream, result, error>>

\* line 146: with
BtWith ==
    /\ pc = "bt_with"
    /\ LET skip == TestName(Current(stream, pos), "with")
       IN /\ pos' = IF skip THEN Advance(stream, pos) ELSE pos
          /\ pc' = IF skip THEN "bt_with_loop" ELSE "bt_count"
    /\ UNCHANGED <<stream, loc, result, error>>

\* lines 147-151: one binding NAME = expression of the with clause
BtWithBinding ==
    /\ pc = "bt_with_loop"
    /\ Look(stream, pos).type = TOKEN_ASSIGN
    /\ LET token == Current(stream, pos)
           r == HostParseExpression(stream, pos + 2)
       IN IF ~TestType(token, TOKEN_NAME)
          THEN /\ UNCHANGED pos
               /\ Fail(ExpectError(token, TOKEN_NAME))
          ELSE IF ~r.ok
          THEN /\ pos' = pos + 2
               /\ Fail(r.err)
          ELSE /\ pos' = r.pos
               /\ loc' = [loc EXCEPT !.with_vars = DictSet(loc.with_vars, token.value, r.expr)]
               /\ UNCHANGED <<stream, pc, result, error>>

\* line 147: the token after the current one is no '=': the clause ends
BtWithEnd ==
    /\ pc = "bt_with_loop"
    /\ Look(stream, pos).type # TOKEN_ASSIGN
    /\ pc' = "bt_count"
    /\ UNCHANGED <<stream, pos, loc, result, error>>

\* lines 153-157: count NAME = expression
BtCount ==
    /\ pc = "bt_count"
    /\ LET p1 == Advance(stream, pos)
           name == Current(stream, p1)
           p2 == Advance(stream, p1)
           eq == Current(stream, p2)
           r == HostParseExpression(stream, Advance(stream, p2))
       IN IF ~TestName(Current(stream, pos), "count")
          THEN /\ pc' = "bt_context"
               /\ UNCHANGED <<stream, pos, loc, result, error>>
          ELSE IF ~TestType(name, TOKEN_NAME)
          THEN /\ pos' = p1
               /\ Fail(ExpectError(name, TOKEN_NAME))
          ELSE IF ~TestType(eq, TOKEN_ASSIGN)
          THEN /\ pos' = p2
               /\ Fail(ExpectError(eq, TOKEN_ASSIGN))
          ELSE IF ~r.ok
          THEN /\ pos' = Advance(stream, p2)
               /\ Fail(r.err)
          ELSE /\ pos' = r.pos
               /\ loc' = [loc EXCEPT !.count = Some(<<name.value, r.expr>>)]
               /\ pc' = "bt_context"
               /\ UNCHANGED <<stream, result, error>>

\* lines 159-160: context STRING
BtContext ==
    /\ pc = "bt_context"
    /\ LET p1 == Advance(stream, pos)
           context == Current(stream, p1)
       IN IF ~TestName(Current(stream, pos), "context")
          THEN /\ pc' = "bt_block_end"
               /\ UNCHANGED <<stream, pos, loc, result, error>>
          ELSE IF ~TestType(context, TOKEN_STRING)
          THEN /\ pos' = p1
               /\ Fail(ExpectError(context, TOKEN_STRING))
          ELSE /\ pos' = Advance(stream, p1)
               /\ loc' = [loc EXCEPT !.context = Some(context.value)]
               /\ pc' = "bt_block_end"
               /\ UNCHANGED <<stream, result, error>>

\* lines 162-166: the closing delimiter of the header; the locals of the body
BtBlockEnd ==
    /\ pc = "bt_block_end"
    /\ LET token == Current(stream, pos)
       IN IF ~TestType(token, TOKEN_BLOCK_END)
          THEN /\ UNCHANGED pos
               /\ Fail(ExpectError(token, TOKEN_BLOCK_END))
          ELSE /\ pos' = Advance(stream, pos)
               /\ loc' = [lineno |-> loc.lineno, with_vars |-> loc.with_vars,
                          count |-> loc.count, context |-> loc.context,
                          trimmed |-> loc.trimmed, as_var |-> loc.as_var,
                          body_singular |-> None, body |-> <<>>,
                          additional_vars |-> {}]
               /\ pc' = "bt_body"
               /\ UNCHANGED <<stream, result, error>>

\* line 167: iterating the stream stops at the end of the template (the
\* iterator raises StopIteration there and yields no end-of-template token,
\* so the test of line 168 is never true) and the loop ends
BtBodyEof ==
    /\ pc = "bt_body"
    /\ Current(stream, pos).type = TOKEN_EOF
    /\ pc' = "bt_emit"
    /\ UNCHANGED <<stream, pos, loc, result, error>>

\* lines 170-171: text
BtBodyData ==
    /\ pc = "bt_body"
    /\ Current(stream, pos).type = TOKEN_DATA
    /\ pos' = Advance(stream, pos)
    /\ loc' = [loc EXCEPT !.body = Append(loc.body, Current(stream, pos).value)]
    /\ UNCHANGED <<stream, pc, result, error>>

\* a test of line 174 that forgets the count binding
IsAdditionalVarNoCount(l, name) == ~HasKey(l.with_vars, name)

\* line 174: the name is bound by neither with nor count
IsAdditionalVar(l, name) ==
    ~HasKey(l.with_vars, name) /\ (IsNone(l.count) \/ Get(l.count)[1] # name)

\* lines 172-179: {{ NAME }}
BtBodyVariable ==
    /\ pc = "bt_body"
    /\ Current(stream, pos).type = TOKEN_VARIABLE_BEGIN
    /\ LET p1 == Advance(stream, pos)
           name == Current(stream, p1)
           p2 == Advance(stream, p1)
           end == Current(stream, p2)
       IN IF ~TestType(name, TOKEN_NAME)
          THEN /\ pos' = p1
               /\ Fail(ExpectError(name, TOKEN_NAME))
          ELSE IF ~TestType(end, TOKEN_VARIABLE_END)
          THEN /\ pos' = p2
               /\ loc' = IF IsAdditionalVar(loc, name.value)
                         THEN [loc EXCEPT !.additional_vars = @ \cup {name.value}]
                         ELSE loc
               /\ pc' = "failed"
               /\ error' = Some(ExpectError(end, TOKEN_VARIABLE_END))
               /\ UNCHANGED <<stream, result>>
          ELSE /\ pos' = Advance(stream, p2)
               /\ loc' = [loc EXCEPT
                            !.additional_vars =
                                IF IsAdditionalVar(loc, name.value)
                                THEN @ \cup {name.value} ELSE @,
                            !.body = Append(@, Placeholder(name.value))]
               /\ UNCHANGED <<stream, pc, result, error>>

\* a plural branch without the check of lines 182-183
BtBodyPluralUnchecked ==
    /\ pc = "bt_body"
    /\ Current(stream, pos).type = TOKEN_BLOCK_BEGIN
    /\ LET p1 == Advance(stream, pos)
           p2 == Advance(stream, p1)
           end == Current(stream, p2)
       IN /\ IsNone(loc.body_singular) /\ TestName(Current(stream, p1), "plural")
          /\ IF ~TestType(end, TOKEN_BLOCK_END)
             THEN /\ pos' = p2
                  /\ Fail(ExpectError(end, TOKEN_BLOCK_END))
             ELSE /\ pos' = Advance(stream, p2)
                  /\ loc' = [loc EXCEPT !.body_singular = Some(loc.body), !.body = <<>>]
                  /\ UNCHANGED <<stream, pc, result, error>>

\* lines 180-186: {% plural %}, the first one: the body so far is the singular
BtBodyPlural ==
    /\ pc = "bt_body"
    /\ Current(stream, pos).type = TOKEN_BLOCK_BEGIN
    /\ LET p1 == Advance(stream, pos)
           p2 == Advance(stream, p1)
           end == Current(stream, p2)
       IN /\ IsNone(loc.body_singular) /\ TestName(Current(stream, p1), "plural")
          /\ IF IsNone(loc.count)
             THEN /\ pos' = p2
                  /\ Fail(TemplateSyntaxError("used plural without specifying count",
                                              end.lineno))
             ELSE IF ~TestType(end, TOKEN_BLOCK_END)
             THEN /\ pos' = p2
                  /\ Fail(ExpectError(end, TOKEN_BLOCK_END))
             ELSE /\ pos' = Advance(stream, p2)
                  /\ loc' = [loc EXCEPT !.body_singular = Some(loc.body), !.body = <<>>]
                  /\ UNCHANGED <<stream, pc, result, error>>

\* lines 187-189: any other block must be {% endblocktrans
BtBodyEnd ==
    /\ pc = "bt_body"
    /\ Current(stream, pos).type = TOKEN_BLOCK_BEGIN
    /\ LET p1 == Advance(stream, pos)
           token == Current(stream, p1)
       IN /\ ~(IsNone(loc.body_singular) /\ TestName(token, "plural"))
          /\ IF ~TestName(token, "endblocktrans")
             THEN /\ pos' = p1
                  /\ Fail(ExpectError(token, "name:endblocktrans"))
             ELSE /\ pos' = Advance(stream, p1)
                  /\ pc' = "bt_emit"
                  /\ UNCHANGED <<stream, loc, result, error>>

\* all orders of the elements of a finite set
Orders(S) ==
    {q \in [1..Cardinality(S) -> S] : \A i, j \in 1..Cardinality(S) : q[i] = q[j] => i = j}

\* lines 194-215: the dictionary of the bindings and the keyword arguments;
\* implicit is additional_vars in the order the set is iterated in
BtKwargs(l, implicit) ==
    LET trans_vars ==
            [i \in 1..Len(l.with_vars) |->
                Pair(Const(l.with_vars[i][1], 0), l.with_vars[i][2], l.lineno)]
            \o (IF IsNone(l.count) THEN <<>>
                ELSE <<Pair(Const(Get(l.count)[1], 0), Get(l.count)[2], l.lineno)>>)
            \o [i \in 1..Len(implicit) |->
                Pair(Const(implicit[i], 0), Name(implicit[i], "load", l.lineno), l.lineno)]
    IN <<KeywordAt("trans_vars", Dict(trans_vars, l.lineno), l.lineno)>>
       \o (IF IsNone(l.context) THEN <<>>
           ELSE <<KeywordAt("context", Const(Get(l.context), l.lineno), l.lineno)>>)
       \o (IF IsNone(l.count) THEN <<>>
           ELSE <<KeywordAt("count_var", Const(Get(l.count)[1], l.lineno), l.lineno)>>)

\* texts of which only the last is trimmed
BtArgsTrimLast(l) ==
    LET text(pieces) == IF l.trimmed THEN Trimmed(JoinText(pieces)) ELSE JoinText(pieces)
    IN (IF IsNone(l.body_singular) THEN <<>>
        ELSE <<TemplateData(JoinText(Get(l.body_singular)), l.lineno)>>)
       \o <<TemplateData(text(l.body), l.lineno)>>

\* lines 226-241: the texts, singular before plural
BtArgs(l) ==
    LET text(pieces) == IF l.trimmed THEN Trimmed(JoinText(pieces)) ELSE JoinText(pieces)
    IN (IF IsNone(l.body_singular) THEN <<>>
        ELSE <<TemplateData(text(Get(l.body_singular)), l.lineno)>>)
       \o <<TemplateData(text(l.body), l.lineno)>>

\* lines 191-247: the check of the plural form, and the node the tag compiles to
BtEmit ==
    /\ pc = "bt_emit"
    /\ IF ~IsNone(loc.count) /\ IsNone(loc.body_singular)
       THEN /\ UNCHANGED pos
            /\ Fail(TemplateSyntaxError("plural form not found",
                                        Current(stream, pos).lineno))
       ELSE /\ \E implicit \in Orders(loc.additional_vars) :
                 LET call == MarkSafe(call_method("_make_blocktrans", Some(BtArgs(loc)),
                                                  Some(BtKwargs(loc, implicit)), 0),
                                      loc.lineno)
                 IN result' = Some(IF IsNone(loc.as_var)
                                   THEN Output(<<call>>, loc.lineno)
                                   ELSE Assign(Get(loc.as_var), call, 0))
            /\ pc' = "done"
            /\ UNCHANGED <<stream, pos, loc, error>>

\* ------------------------------------------------------------ blocktrans tags

\* the clauses of a header
ClauseTokens(c) ==
    CASE c = "trimmed" -> <<Lexeme(TOKEN_NAME, "trimmed")>>
      [] c = "asvar" -> <<Lexeme(TOKEN_NAME, "asvar"), Lexeme(TOKEN_NAME, "r")>>
      [] c = "with" -> <<Lexeme(TOKEN_NAME, "with"),
                         Lexeme(TOKEN_NAME, "x"), Lexeme(TOKEN_ASSIGN, "="),
                         Lexeme(TOKEN_NAME, "y")>>
      [] c = "with2" -> <<Lexeme(TOKEN_NAME, "with"),
                          Lexeme(TOKEN_NAME, "x"), Lexeme(TOKEN_ASSIGN, "="),
                          Lexeme(TOKEN_NAME, "y"),
                          Lexeme(TOKEN_NAME, "n"), Lexeme(TOKEN_ASSIGN, "="),
                          Lexeme(TOKEN_INTEGER, "2")>>
      [] c = "count" -> <<Lexeme(TOKEN_NAME, "count"),
                          Lexeme(TOKEN_NAME, "n"), Lexeme(TOKEN_ASSIGN, "="),
                          Lexeme(TOKEN_INTEGER, "1")>>
      [] c = "context" -> <<Lexeme(TOKEN_NAME, "context"), Lexeme(TOKEN_STRING, "c")>>

Clauses == {"trimmed", "asvar", "with", "with2", "count", "context"}

\* the pieces of a body
ItemTokens(b) ==
    CASE b = "text" -> <<Lexeme(TOKEN_DATA, <<"a">>)>>
      [] b = "lines" -> <<Lexeme(TOKEN_DATA, <<"\n", " ", "b", "\n">>)>>
      [] b = "x" -> <<Lexeme(TOKEN_VARIABLE_BEGIN, "{{"), Lexeme(TOKEN_NAME, "x"),
                      Lexeme(TOKEN_VARIABLE_END, "}}")>>
      [] b = "n" -> <<Lexeme(TOKEN_VARIABLE_BEGIN, "{{"), Lexeme(TOKEN_NAME, "n"),
                      Lexeme(TOKEN_VARIABLE_END, "}}")>>
      [] b = "plural" -> <<Lexeme(TOKEN_BLOCK_BEGIN, "{%"), Lexeme(TOKEN_NAME, "plural"),
                           Lexeme(TOKEN_BLOCK_END, "%}")>>
      [] b = "end" -> <<Lexeme(TOKEN_BLOCK_BEGIN, "{%"),
                        Lexeme(TOKEN_NAME, "endblocktrans"),
                        Lexeme(TOKEN_BLOCK_END, "%}")>>

Items == {"text", "lines", "x", "n", "plural"}

RECURSIVE Flatten(_)
Flatten(qs) == IF qs = <<>> THEN <<>> ELSE Head(qs) \o Flatten(Tail(qs))

\* a header: clauses, each at most once and one with clause at most, in any order
Headers ==
    {h \in SeqUpTo(Clauses, 5) :
        /\ \A i, j \in 1..Len(h) : h[i] = h[j] => i = j
        /\ ~(\E i, j \in 1..Len(h) : h[i] = "with" /\ h[j] = "with2")}

\* the order the clauses are written in in the class documentation
ClauseRank(c) ==
    CASE c = "trimmed" -> 1 [] c = "asvar" -> 2 [] c \in {"with", "with2"} -> 3
      [] c = "count" -> 4 [] c = "context" -> 5

InOrder(h) == \A i, j \in 1..Len(h) : i < j => ClauseRank(h[i]) < ClauseRank(h[j])

\* a body, closed by {% endblocktrans %} or cut off by the end of the template
Bodies ==
    {b \o e : b \in SeqUpTo(Items, MaxBodyItems), e \in {<<>>, <<"end">>}}

BlocktransLexemes(h, b) ==
    <<Lexeme(TOKEN_NAME, "blocktrans")>>
        \o Flatten([i \in 1..Len(h) |-> ClauseTokens(h[i])])
        \o <<Lexeme(TOKEN_BLOCK_END, "%}")>>
        \o Flatten([i \in 1..Len(b) |-> ItemTokens(b[i])])

\* a header of trimmed, with and count in documentation order
IsPlainHeader(h) ==
    InOrder(h) /\ \A i \in 1..Len(h) : h[i] \notin {"asvar", "context"}

\* {% blocktrans <header> %} <body>: every body after the plain headers, a
\* singular and a plural body after every header
IsBlocktransStream(st) ==
    \E h \in Headers :
        \E b \in IF IsPlainHeader(h) THEN Bodies
                  ELSE {<<"x", "end">>, <<"n", "plural", "x", "end">>} :
            st = Lex(BlocktransLexemes(h, b))

InitBlocktrans ==
    /\ IsBlocktransStream(stream)
    /\ pos = 1
    /\ pc = "i18n_parse"
    /\ loc = <<>>
    /\ result = None
    /\ error = None

NextBlocktrans ==
    \/ I18nParse
    \/ BtTrimmed
    \/ BtAsvar
    \/ BtWith
    \/ BtWithBinding
    \/ BtWithEnd
    \/ BtCount
    \/ BtContext
    \/ BtBlockEnd
    \/ BtBodyEof
    \/ BtBodyData
    \/ BtBodyVariable
    \/ BtBodyPlural
    \/ BtBodyEnd
    \/ BtEmit

SpecBlocktrans == InitBlocktrans /\ [][NextBlocktrans]_vars

\* ------------------------------------------------------------ DjangoI18n._make_blocktrans

\* largest value bound to a name in trans_vars
MaxCount == 2

\* environment.finalize, when one is installed: a function of the host's,
\* here one whose results are values no binding has
ApplyFinalize(v) == v + MaxCount + 1

\* one call of a django.utils.translation lookup, and the dictionary its
\* result is formatted with
Lookup(name, context, singular, plural, count, fmt) ==
    [lookup |-> name, context |-> context, singular |-> singular,
     plural |-> plural, count |-> count, format |-> fmt]

\* lines 253-258: finalize, if installed, on every value of trans_vars
FinalizedTransVars(a) ==
    IF ~IsNone(a.finalize)
    THEN [k \in DOMAIN a.trans_vars |-> ApplyFinalize(a.trans_vars[k])]
    ELSE a.trans_vars

\* a plural branch that takes the count from the finalized bindings
MakeBlocktransCountFinalized(a) ==
    IF IsNone(a.plural)
    THEN IF IsNone(a.context)
         THEN Lookup("ugettext", None, a.singular, None, None, FinalizedTransVars(a))
         ELSE Lookup("pgettext", a.context, a.singular, None, None,
                     FinalizedTransVars(a))
    ELSE IF IsNone(a.context)
         THEN Lookup("ungettext", None, a.singular, a.plural,
                     Some(FinalizedTransVars(a)[Get(a.count_var)]), FinalizedTransVars(a))
         ELSE Lookup("npgettext", a.context, a.singular, a.plural,
                     Some(FinalizedTransVars(a)[Get(a.count_var)]), FinalizedTransVars(a))

\* lines 259-273: the lookup called; force_text leaves a text as it is
MakeBlocktransLookup(a) ==
    IF IsNone(a.plural)
    THEN IF IsNone(a.context)
         THEN Lookup("ugettext", None, a.singular, None, None, FinalizedTransVars(a))
         ELSE Lookup("pgettext", a.context, a.singular, None, None,
                     FinalizedTransVars(a))
    ELSE IF IsNone(a.context)
         THEN Lookup("ungettext", None, a.singular, a.plural,
                     Some(a.trans_vars[Get(a.count_var)]), FinalizedTransVars(a))
         ELSE Lookup("npgettext", a.context, a.singular, a.plural,
                     Some(a.trans_vars[Get(a.count_var)]), FinalizedTransVars(a))

\* lines 249-273: the call of _make_blocktrans with the arguments in loc;
\* trans_vars[count_var] of lines 267 and 272 raises KeyError for a name
\* that trans_vars does not bind (count_var is None when not passed)
MakeBlocktrans ==
    /\ pc = "make_blocktrans"
    /\ IF /\ ~IsNone(loc.plural)
          /\ (IsNone(loc.count_var) \/ Get(loc.count_var) \notin DOMAIN loc.trans_vars)
       THEN /\ UNCHANGED pos
            /\ Fail([exc |-> "KeyError", msg |-> "count_var", lineno |-> 0])
       ELSE /\ result' = Some(MakeBlocktransLookup(loc))
            /\ pc' = "done"
            /\ UNCHANGED <<stream, pos, loc, error>>

\* the names a blocktrans tag can bind
BindingNames == {"n", "x"}

\* the calls a compiled blocktrans tag makes (lines 213-242): singular and
\* plural are the texts of the body, plural and count_var are passed
\* together (lines 182-183, 191-192), and trans_vars binds the count name
\* (lines 199-202)
IsMakeBlocktransCall(a) ==
    \E singular \in {<<"a">>, <<"a", "%", "(", "n", ")", "s">>},
       plural \in {None, Some(<<"b">>)},
       context \in {None, Some("c")},
       finalize \in {None, Some("finalize")},
       keys \in SUBSET BindingNames :
        \E trans_vars \in [keys -> 0..MaxCount] :
            \E count_var \in IF IsNone(plural) THEN {None}
                             ELSE {Some(k) : k \in keys} :
                a = [singular |-> singular, plural |-> plural, context |-> context,
                     trans_vars |-> trans_vars, count_var |-> count_var,
                     finalize |-> finalize]

InitMakeBlocktrans ==
    /\ IsMakeBlocktransCall(loc)
    /\ stream = <<>>
    /\ pos = 1
    /\ pc = "make_blocktrans"
    /\ result = None
    /\ error = None

NextMakeBlocktrans == MakeBlocktrans

SpecMakeBlocktrans == InitMakeBlocktrans /\ [][NextMakeBlocktrans]_vars

\* ------------------------------------------------------------ DjangoCsrf, DjangoStatic, DjangoNow

\* lines 29-36: {% csrf_token %}; Output and MarkSafe are built without lineno
CsrfParse ==
    /\ pc = "csrf_parse"
    /\ LET token == Current(stream, pos)
       IN IF ~TestName(token, "csrf_token")
          THEN /\ UNCHANGED pos
               /\ Fail(ExpectError(token, "csrf_token"))
          ELSE /\ pos' = Advance(stream, pos)
               /\ result' = Some(Output(<<MarkSafe(
                                 call_method("_csrf_token",
                                             Some(<<Name("csrf_token", "load",
                                                         token.lineno)>>),
                                             None, token.lineno), 0)>>, 0))
               /\ pc' = "done"
               /\ UNCHANGED <<stream, loc, error>>

\* lines 345-360 and 376-387: the tag name, a string, and 'as NAME' or
\* nothing; the two parse methods differ in the method they call
StringTagParse(method) ==
    LET lineno == Current(stream, pos).lineno
        p1 == Advance(stream, pos)
        token == Current(stream, p1)
        p2 == Advance(stream, p1)
        call == call_method(method, Some(<<Const(token.value, 0)>>), None, lineno)
        p3 == Advance(stream, p2)
        as_var == Current(stream, p3)
    IN IF ~TestType(token, TOKEN_STRING)
       THEN /\ pos' = p1
            /\ Fail(ExpectError(token, TOKEN_STRING))
       ELSE IF ~TestName(Current(stream, p2), "as")
       THEN /\ pos' = p2
            /\ result' = Some(Output(<<call>>, lineno))
            /\ pc' = "done"
            /\ UNCHANGED <<stream, loc, error>>
       ELSE IF ~TestType(as_var, TOKEN_NAME)
       THEN /\ pos' = p3
            /\ Fail(ExpectError(as_var, TOKEN_NAME))
       ELSE /\ pos' = Advance(stream, p3)
            /\ result' = Some(Assign(Name(as_var.value, "store", as_var.lineno),
                                     call, lineno))
            /\ pc' = "done"
            /\ UNCHANGED <<stream, loc, error>>

\* lines 345-360: DjangoStatic.parse
StaticParse == pc = "static_parse" /\ StringTagParse("_static")

\* lines 376-387: DjangoNow.parse
NowParse == pc = "now_parse" /\ StringTagParse("_now")

\* ------------------------------------------------------------ DjangoCompat

\* line 475: the classes DjangoCompat is composed of
CompatBases ==
    {"DjangoCsrf", "DjangoI18n", "DjangoL10n", "DjangoNow", "DjangoStatic", "DjangoUrl"}

\* the tags attribute of each class (lines 27, 88, 342, 367, 405); DjangoL10n
\* declares none and has the empty set of Extension
Tags(cls) ==
    CASE cls = "DjangoCsrf" -> {"csrf_token"}
      [] cls = "DjangoI18n" -> {"trans", "blocktrans"}
      [] cls = "DjangoL10n" -> {}
      [] cls = "DjangoNow" -> {"now"}
      [] cls = "DjangoStatic" -> {"static"}
      [] cls = "DjangoUrl" -> {"url"}

\* line 480: DjangoCompat.tags
CompatTags == {"csrf_token", "trans", "blocktrans", "now", "static", "url"}

\* a table that has DjangoStatic for the now tag
tag_classNowStatic ==
    [name \in {"csrf_token", "trans", "blocktrans", "now", "static", "url"} |->
        CASE name = "csrf_token" -> "DjangoCsrf"
          [] name = "trans" -> "DjangoI18n"
          [] name = "blocktrans" -> "DjangoI18n"
          [] name = "now" -> "DjangoStatic"
          [] name = "static" -> "DjangoStatic"
          [] name = "url" -> "DjangoUrl"]

\* lines 482-489: DjangoCompat._tag_class
tag_class ==
    [name \in {"csrf_token", "trans", "blocktrans", "now", "static", "url"} |->
        CASE name = "csrf_token" -> "DjangoCsrf"
          [] name = "trans" -> "DjangoI18n"
          [] name = "blocktrans" -> "DjangoI18n"
          [] name = "now" -> "DjangoNow"
          [] name = "static" -> "DjangoStatic"
          [] name = "url" -> "DjangoUrl"]

\* cls.parse: where the parse method of a class begins
ParseOf(cls) ==
    CASE cls = "DjangoCsrf" -> "csrf_parse"
      [] cls = "DjangoI18n" -> "i18n_parse"
      [] cls = "DjangoNow" -> "now_parse"
      [] cls = "DjangoStatic" -> "static_parse"
      [] cls = "DjangoUrl" -> "url_begin"

\* a dispatcher that takes the tag name off the stream
CompatParseConsuming ==
    /\ pc = "compat_parse"
    /\ LET name == Current(stream, pos).value
       IN IF name \notin DOMAIN tag_class
          THEN /\ UNCHANGED pos
               /\ Fail(TemplateSyntaxError("got unexpected tag '" \o name \o "'",
                                           Current(stream, pos).lineno))
          ELSE /\ pc' = ParseOf(tag_class[name])
               /\ pos' = Advance(stream, pos)
               /\ UNCHANGED <<stream, loc, result, error>>

\* lines 491-496: DjangoCompat.parse reads the current token's value and
\* calls the parse method of the class the table has for it
CompatParse ==
    /\ pc = "compat_parse"
    /\ LET name == Current(stream, pos).value
       IN IF name \notin DOMAIN tag_class
          THEN /\ UNCHANGED pos
               /\ Fail(TemplateSyntaxError("got unexpected tag '" \o name \o "'",
                                           Current(stream, pos).lineno))
          ELSE /\ pc' = ParseOf(tag_class[name])
               /\ UNCHANGED <<stream, pos, loc, result, error>>

\* longest argument list of a tag handed to DjangoCompat
MaxCompatArgs == 4

\* bodies of the blocktrans tags handed to DjangoCompat: closed and cut off
\* by the end of the template, with and without a plural marker
CompatBodies ==
    { <<"text", "x", "end">>, <<"n", "plural", "lines", "x", "end">>,
      <<"plural", "end">>, <<"lines", "plural">>, <<"x", "text">>, <<>> }

StringTagLexemes ==
    { Lexeme(TOKEN_STRING, "a"), Lexeme(TOKEN_NAME, "as"), Lexeme(TOKEN_NAME, "v"),
      Lexeme(TOKEN_BLOCK_END, "%}") }

\* the tags jinja2 hands to DjangoCompat.parse: those whose name is in
\* DjangoCompat.tags, each with the tokens of its own grammar after it
IsCompatStream(st) ==
    \/ \E q \in SeqUpTo(StringTagLexemes, MaxCompatArgs) :
          \E tag \in {"csrf_token", "static", "now"} :
              /\ EndsAtBlockEnd(q)
              /\ st = Lex(<<Lexeme(TOKEN_NAME, tag)>> \o q)
    \/ \E v \in UrlViewLexemes, q \in SeqUpTo(UrlArgLexemes, MaxCompatArgs) :
          /\ EndsAtBlockEnd(q)
          /\ st = Lex(<<Lexeme(TOKEN_NAME, "url"), v>> \o q)
    \/ \E m \in TransMsgLexemes, q \in SeqUpTo(TransModLexemes, MaxCompatArgs) :
          /\ EndsAtBlockEnd(q)
          /\ st = Lex(<<Lexeme(TOKEN_NAME, "trans"), m>> \o q)
    \/ \E h \in {g \in Headers : Len(g) <= 1}, b \in CompatBodies :
          st = Lex(BlocktransLexemes(h, b))

InitCompat ==
    /\ IsCompatStream(stream)
    /\ pos = 1
    /\ pc = "compat_parse"
    /\ loc = <<>>
    /\ result = None
    /\ error = None

NextCompat ==
    \/ CompatParse
    \/ CsrfParse
    \/ StaticParse
    \/ NowParse
    \/ NextUrl
    \/ NextTrans
    \/ NextBlocktrans

SpecCompat == InitCompat /\ [][NextCompat]_vars

\* a parse method is sequential code that runs on: a step that can be taken
\* is taken
SpecCompatFair == SpecCompat /\ WF_vars(NextCompat)

\* ------------------------------------------------------------ DjangoL10n

\* most constructions of DjangoL10n on one environment
MaxInstalls == 3

\* a function of one argument: a named one (template_localtime, localize, a
\* finalize of the host's), or the lambda of _compose with f and g in its
\* closure
Function(name) == [op |-> "function", name |-> name]
Lambda(f, g) == [op |-> "lambda", f |-> f, g |-> g]

\* a _compose with the two functions exchanged
_composeSwapped(f, g) == Lambda(g, f)

\* lines 327-329: lambda var: f(g(var))
_compose(f, g) == Lambda(f, g)

\* the call fn(v); a value is the sequence of the names of the functions
\* applied to it, after the value it began as
RECURSIVE Apply(_, _)
Apply(fn, v) ==
    IF fn.op = "function" THEN Append(v, fn.name)
    ELSE Apply(fn.f, Apply(fn.g, v))

\* lines 319-322: for f in fns: new_finalize = self._compose(f, new_finalize)
RECURSIVE ComposeEach(_, _)
ComposeEach(fns, new_finalize) ==
    IF fns = <<>> THEN new_finalize
    ELSE ComposeEach(Tail(fns), _compose(Head(fns), new_finalize))

\* lines 310-324: environment.finalize after DjangoL10n.__init__; the
\* iterator fns has lost its first element only if that became new_finalize
L10nFinalize(use_tz, use_l10n, env_finalize) ==
    LET finalize == (IF use_tz THEN <<Function("template_localtime")>> ELSE <<>>)
                    \o (IF use_l10n THEN <<Function("localize")>> ELSE <<>>)
    IN IF finalize = <<>> THEN env_finalize
       ELSE IF IsNone(env_finalize)
       THEN Some(ComposeEach(Tail(finalize), Head(finalize)))
       ELSE Some(ComposeEach(finalize, Get(env_finalize)))

\* lines 308-324: DjangoL10n.__init__(environment)
L10nInit ==
    /\ pc = "environment"
    /\ loc.installs < MaxInstalls
    /\ loc' = [loc EXCEPT
                 !.finalize = L10nFinalize(loc.USE_TZ, loc.USE_L10N, loc.finalize),
                 !.installs = loc.installs + 1]
    /\ UNCHANGED <<stream, pos, pc, result, error>>

\* the values a template prints
Values == {<<"a">>, <<"b">>, <<"c">>}

\* jinja2 prints a variable: environment.finalize, if there is one, is
\* called with the value (tests.py 225-237)
RenderVariable ==
    /\ pc = "environment"
    /\ \E v \in Values :
          result' = Some([value |-> v,
                          printed |-> IF IsNone(loc.finalize) THEN v
                                      ELSE Apply(Get(loc.finalize), v)])
    /\ pc' = "done"
    /\ UNCHANGED <<stream, pos, loc, error>>

\* an environment before DjangoL10n is constructed on it: the two settings,
\* and no finalize or one that an extension before it installed
InitL10n ==
    /\ \E use_tz \in BOOLEAN, use_l10n \in BOOLEAN,
          finalize \in {None, Some(Function("existing"))} :
          loc = [USE_TZ |-> use_tz, USE_L10N |-> use_l10n, finalize |-> finalize,
                 installs |-> 0]
    /\ stream = <<>>
    /\ pos = 1
    /\ pc = "environment"
    /\ result = None
    /\ error = None

NextL10n ==
    \/ L10nInit
    \/ RenderVariable

SpecL10n == InitL10n /\ [][NextL10n]_vars

\* ------------------------------------------------------------ DjangoCompat: construction

\* most classes a subclass of DjangoCompat lists as bases after it
MaxExtraBases == 2

\* tag names a class of the host program may declare: one that DjangoCompat
\* declares and one that it does not
ExtraTagNames == {"url", "x"}

\* lines 90-94, 308-324, 475: the construction of DjangoCompat or of a
\* subclass with further bases (loc.extra: the tags of each). No class of the
\* bases but DjangoI18n and DjangoL10n defines __init__, so the call runs
\* DjangoI18n.__init__, which runs DjangoL10n.__init__ as its super; neither
\* reads the tags of any class
CompatInit ==
    /\ pc = "compat_init"
    /\ loc' = [loc EXCEPT
                 !.finalize = L10nFinalize(loc.USE_TZ, loc.USE_L10N, loc.finalize),
                 !.globals = loc.globals \cup {"_", "gettext", "pgettext"}]
    /\ pc' = "constructed"
    /\ UNCHANGED <<stream, pos, result, error>>

\* the environment and the class handed to the constructor
InitCompatInit ==
    /\ \E use_tz \in BOOLEAN, use_l10n \in BOOLEAN,
          finalize \in {None, Some(Function("existing"))},
          extra \in SeqUpTo(SUBSET ExtraTagNames, MaxExtraBases) :
          loc = [USE_TZ |-> use_tz, USE_L10N |-> use_l10n, finalize |-> finalize,
                 globals |-> {}, extra |-> extra]
    /\ stream = <<>>
    /\ pos = 1
    /\ pc = "compat_init"
    /\ result = None
    /\ error = None

NextCompatInit == CompatInit

SpecCompatInit == InitCompatInit /\ [][NextCompatInit]_vars

\* ------------------------------------------------------------ url tag: properties

InUrl == pc \in {"url_loop", "url_emit", "done", "failed"} /\ loc # <<>>

\* the message of the error of lines 444-448 at token tok
KeywordNameMsg(tok) ==
    "got '" \o describe_token(tok) \o "', expected name for keyword argument"

IsKeywordNameError(e) ==
    \E i \in 1..(Len(stream) + 1) : e.msg = KeywordNameMsg(Current(stream, i))

\* a token that is a whole argument value: a literal or a variable
IsAtom(tok) ==
    \/ tok.type \in {TOKEN_STRING, TOKEN_INTEGER}
    \/ tok.type = TOKEN_NAME /\ tok.value # "as"

\* the node an atom is parsed to
AtomNode(tok) ==
    IF tok.type = TOKEN_NAME THEN Name(tok.value, "load", tok.lineno)
    ELSE Const(tok.value, tok.lineno)

\* the tag is {% url STRING a1 .. an NAME = value ..., n >= 1, the a's
\* positional arguments: the NAME of the keyword argument, which is not the
\* word 'as' of the capture suffix, is at stream[i]
MixedAt(i) ==
    /\ i >= 4
    /\ i + 2 <= Len(stream)
    /\ stream[2].type = TOKEN_STRING
    /\ \A j \in 3..(i - 1) : IsAtom(stream[j])
    /\ stream[3].type # TOKEN_NAME \/ stream[4].type # TOKEN_ASSIGN
    /\ stream[i].type = TOKEN_NAME
    /\ stream[i].value # "as"
    /\ stream[i + 1].type = TOKEN_ASSIGN
    /\ IsAtom(stream[i + 2])

\* the first '=' of the tag
FirstAssign ==
    CHOOSE i \in 1..Len(stream) :
        /\ stream[i].type = TOKEN_ASSIGN
        /\ \A j \in 1..(i - 1) : stream[j].type # TOKEN_ASSIGN

\* C1 as claimed: a url tag with a positional first argument and a later
\* NAME '=' value argument fails with the keyword-argument-name error
C1_MixedFailsWithKeywordNameError ==
    (\E i \in 1..Len(stream) : MixedAt(i)) /\ pc \in {"done", "failed"}
        => pc = "failed" /\ IsKeywordNameError(Get(error))

\* C1: a url tag with a positional first argument and a later NAME '=' value
\* argument never returns a node; it fails at the first '=', and the failure
\* is not the keyword-argument-name error (raised in keyword mode only) but
\* the host expression parser's "unexpected '='", at the line of the '='
C1_MixedFailsAtAssign ==
    (\E i \in 1..Len(stream) : MixedAt(i)) =>
        /\ pc \notin {"url_emit", "done"}
        /\ result = None
        /\ pc = "failed" =>
             /\ ~IsKeywordNameError(Get(error))
             /\ error = Some(TemplateSyntaxError("unexpected '='",
                                                 stream[FirstAssign].lineno))
             /\ pos = FirstAssign

\* {% url 'v' 'a' k = ... has failed at the '='
C1_Witness ==
    /\ MixedAt(4)
    /\ stream[3] = Token(TOKEN_STRING, "a", 3)
    /\ stream[4].value = "k"
    /\ pc = "failed"
    /\ error = Some(TemplateSyntaxError("unexpected '='", 5))
    /\ loc.args = Some(<<Const("a", 3), Name("k", "load", 4)>>)

\* the tag has a first argument and the parse is past its first token
UrlPastFirst ==
    /\ InUrl
    /\ pc # "failed"
    /\ pos > 3

ModeDecided == InUrl /\ (~IsNone(loc.args) \/ ~IsNone(loc.kwargs))

\* at most one of args and kwargs exists; the call has the view name first
\* and further positional arguments or keyword arguments, never both
C7_Exclusive ==
    /\ InUrl => IsNone(loc.args) \/ IsNone(loc.kwargs)
    /\ pc = "done" /\ InUrl =>
         LET call == IF IsNone(loc.as_var) THEN Get(result).nodes[1]
                     ELSE Get(result).value
         IN /\ call.node = "Call"
            /\ call.func.name = "_url_reverse"
            /\ call.args[1] = loc.view_name
            /\ loc.view_name = Const(stream[2].value, 2)
            /\ (Len(call.args) = 1 \/ call.kwargs = <<>>)
            /\ (IsNone(loc.kwargs) => call.kwargs = <<>>)
            /\ (IsNone(loc.args) => Len(call.args) = 1)
            /\ (~IsNone(loc.args) => call.args = <<loc.view_name>> \o Get(loc.args))
            /\ (~IsNone(loc.kwargs) =>
                  /\ Len(call.kwargs) = Len(Get(loc.kwargs))
                  /\ \A i \in 1..Len(call.kwargs) :
                        call.kwargs[i] = Keyword(Get(loc.kwargs)[i][1],
                                                 Get(loc.kwargs)[i][2]))

\* C7 as claimed: the mode is decided by the first argument, keyword mode if
\* it is NAME followed by '=', positional mode otherwise, and stays; at most
\* one of args and kwargs exists; the call never carries both
C7_ModeByNameAssign ==
    /\ C7_Exclusive
    /\ UrlPastFirst /\ ~TestName(stream[3], "as") => ModeDecided
    /\ ModeDecided =>
         (~IsNone(loc.kwargs)
            <=> Current(stream, 3).type = TOKEN_NAME
                  /\ Look(stream, 3).type = TOKEN_ASSIGN)

\* C7: the mode is decided once, by the token after the first token of the
\* first argument: keyword mode if that is '=' (whatever precedes it; a first
\* token that is no NAME then fails with the keyword-argument-name error),
\* positional mode otherwise, and it never changes; at most one of args and
\* kwargs exists in every state; the call carries the view name first plus
\* further positional arguments or keyword arguments, never both
C7_ModeByAssign ==
    /\ C7_Exclusive
    /\ UrlPastFirst /\ ~TestName(stream[3], "as") => ModeDecided
    /\ ModeDecided =>
         /\ ~IsNone(loc.kwargs) <=> Look(stream, 3).type = TOKEN_ASSIGN
         /\ ~IsNone(loc.kwargs) /\ stream[3].type # TOKEN_NAME =>
              /\ pc \in {"url_loop", "failed"}
              /\ pos = 3
              /\ pc = "failed" =>
                   error = Some(TemplateSyntaxError(KeywordNameMsg(stream[3]), 3))

\* {% url 'v' k = 1 %} has compiled to a call with a keyword only
C7_Witness ==
    /\ pc = "done"
    /\ InUrl
    /\ IsNone(loc.args)
    /\ loc.kwargs = Some(<<<<"k", Const("1", 5)>>>>)
    /\ Len(stream) = 6
    /\ Get(result).node = "Output"
    /\ Get(result).nodes[1].args = <<Const("v", 2)>>
    /\ Get(result).nodes[1].kwargs = <<Keyword("k", Const("1", 5))>>

\* C8: in a compiled url tag with positional arguments, each token between
\* the view name and the end of the arguments is one argument of the call,
\* in source order: n adjacent string literals are n constants, none joined
\* with its neighbour, and a string literal after a name or a number is an
\* argument of its own
C8_StringsAreDistinctArgs ==
    pc = "done" /\ InUrl /\ ~IsNone(loc.args) =>
        LET call == IF IsNone(loc.as_var) THEN Get(result).nodes[1]
                    ELSE Get(result).value
            n == Len(call.args) - 1
        IN /\ n = Len(Get(loc.args))
           /\ \A i \in 1..n :
                /\ IsAtom(stream[2 + i])
                /\ call.args[1 + i] = AtomNode(stream[2 + i])
           /\ stream[3 + n].type = TOKEN_BLOCK_END \/ TestName(stream[3 + n], "as")

\* {% url 'v' 'a' 'b' k 'a' %} has compiled to a call with four arguments
C8_Witness ==
    /\ pc = "done"
    /\ InUrl
    /\ Len(stream) = 7
    /\ Get(result).node = "Output"
    /\ Get(result).nodes[1].args =
         <<Const("v", 2), Const("a", 3), Const("b", 4), Name("k", "load", 5),
           Const("a", 6)>>

\* C9: in keyword mode, a step of the loop at a token that is no NAME (and
\* not the closing delimiter) fails with "got '<description of the token>',
\* expected name for keyword argument" at that token's line, consumes
\* nothing and returns no node
C9_KeywordNameExpected ==
    [][ /\ pc = "url_loop"
        /\ ~IsNone(loc.kwargs)
        /\ Current(stream, pos).type \notin {TOKEN_NAME, TOKEN_BLOCK_END}
        => /\ pc' = "failed"
           /\ error' = Some(TemplateSyntaxError(
                              KeywordNameMsg(Current(stream, pos)),
                              Current(stream, pos).lineno))
           /\ result' = None
           /\ pos' = pos ]_vars

\* {% url 'v' k = 'a' 1 has failed at the 1
C9_Witness ==
    /\ InUrl
    /\ pc = "failed"
    /\ loc.kwargs = Some(<<<<"k", Const("a", 5)>>>>)
    /\ Current(stream, pos).type = TOKEN_INTEGER
    /\ error = Some(TemplateSyntaxError(
                      "got 'integer', expected name for keyword argument", 6))

\* ------------------------------------------------------------ trans tag: properties

InTrans == pc \in {"trans_loop", "trans_emit", "done", "failed"} /\ "string" \in DOMAIN loc

\* the modifiers of the grammar, noop | context STRING | as NAME, read from
\* position p of s up to the first token that begins none: the kind of each
\* and the position of its first token
RECURSIVE Modifiers(_, _)
Modifiers(s, p) ==
    LET tok == Current(s, p)
        arg == Current(s, p + 1)
    IN IF TestName(tok, "noop")
       THEN <<[kind |-> "noop", at |-> p]>> \o Modifiers(s, p + 1)
       ELSE IF TestName(tok, "context") /\ arg.type = TOKEN_STRING
       THEN <<[kind |-> "context", at |-> p]>> \o Modifiers(s, p + 2)
       ELSE IF TestName(tok, "as") /\ arg.type = TOKEN_NAME
       THEN <<[kind |-> "as", at |-> p]>> \o Modifiers(s, p + 2)
       ELSE <<>>

HasKind(mods, k) == \E i \in 1..Len(mods) : mods[i].kind = k
AtOf(mods, k) == mods[CHOOSE i \in 1..Len(mods) : mods[i].kind = k].at

\* the tag is {% trans STRING and modifiers, each at most once, up to the
\* j-th, which is noop after a context or context after a noop
NoopAndContext(mods, j) ==
    /\ stream[2].type = TOKEN_STRING
    /\ j \in 1..Len(mods)
    /\ \A a, b \in 1..j : a # b => mods[a].kind # mods[b].kind
    /\ \/ mods[j].kind = "noop" /\ \E i \in 1..(j - 1) : mods[i].kind = "context"
       \/ mods[j].kind = "context" /\ \E i \in 1..(j - 1) : mods[i].kind = "noop"

\* C3: a trans tag with both noop and context, in either order, returns no
\* node: it fails at the second of the two, with "noop translation can't
\* have context" at that token's line
C3_NoopContextExclusive ==
    \A j \in 1..Len(Modifiers(stream, 3)) :
        NoopAndContext(Modifiers(stream, 3), j) =>
            /\ pc \notin {"trans_emit", "done"}
            /\ result = None
            /\ InTrans => pos <= Modifiers(stream, 3)[j].at + 1
            /\ pc = "failed" =>
                 /\ error = Some(TemplateSyntaxError(
                                   "noop translation can't have context",
                                   stream[Modifiers(stream, 3)[j].at].lineno))
                 /\ pos = Modifiers(stream, 3)[j].at + 1

\* {% trans 'm' context 'c' as v noop has failed at the noop
C3_Witness ==
    /\ pc = "failed"
    /\ InTrans
    /\ Len(stream) = 7
    /\ NoopAndContext(Modifiers(stream, 3), 3)
    /\ TestName(stream[3], "context")
    /\ TestName(stream[7], "noop")
    /\ loc.context = Some(Const("c", 4))
    /\ error = Some(TemplateSyntaxError("noop translation can't have context", 7))

\* the value a compiled trans tag stands for, by the modifiers of its source
ExpectedTransValue(s) ==
    LET mods == Modifiers(s, 3)
        msg == Const(s[2].value, 2)
    IN IF HasKind(mods, "noop") THEN msg
       ELSE IF HasKind(mods, "context")
       THEN Call(Name("pgettext", "load", 1),
                 <<Const(s[AtOf(mods, "context") + 1].value, AtOf(mods, "context") + 1),
                   msg>>, <<>>, 1)
       ELSE Call(Name("gettext", "load", 0), <<msg>>, <<>>, 1)

\* C4: a compiled trans tag is the message itself if noop was given,
\* pgettext(context, message) if context was given, gettext(message)
\* otherwise; that value in an Output without 'as', in an Assign to the name
\* with 'as'
C4_ExactlyOneValue ==
    pc = "done" /\ InTrans =>
        LET mods == Modifiers(stream, 3)
            value == ExpectedTransValue(stream)
        IN /\ ~(HasKind(mods, "noop") /\ HasKind(mods, "context"))
           /\ Current(stream, pos).type # TOKEN_NAME
           /\ result = Some(IF HasKind(mods, "as")
                            THEN Assign(Name(stream[AtOf(mods, "as") + 1].value, "store",
                                             AtOf(mods, "as") + 1),
                                        value, 1)
                            ELSE Output(<<value>>, 1))

\* {% trans 'm' noop %} has compiled to the output of the constant 'm'
C4_Witness ==
    /\ pc = "done"
    /\ InTrans
    /\ Len(stream) = 4
    /\ TestName(stream[3], "noop")
    /\ result = Some(Output(<<Const("m", 2)>>, 1))

\* a node without the line numbers: the name assigned to and the value
AssignEssence(n) ==
    [node |-> n.node,
     target |-> <<n.target.name, n.target.ctx>>,
     value |-> IF n.value.node = "Const" THEN <<"Const", n.value.value>>
               ELSE <<"Call", n.value.func.name,
                      [i \in 1..Len(n.value.args) |-> n.value.args[i].value],
                      n.value.kwargs>>]

\* the modifier that begins at position p: noop, or context STRING
IsModifierAt(p) ==
    \/ TestName(Current(stream, p), "noop")
    \/ TestName(Current(stream, p), "context") /\ Current(stream, p + 1).type = TOKEN_STRING
ModifierLen(p) == IF TestName(Current(stream, p), "noop") THEN 1 ELSE 2

\* the Assign both orders stand for: the name bound to the message itself
\* for noop, to pgettext(context, message) for context
ExpectedAssign(msg, v, p) ==
    [node |-> "Assign",
     target |-> <<v, "store">>,
     value |-> IF TestName(stream[p], "noop") THEN <<"Const", msg>>
               ELSE <<"Call", "pgettext", <<stream[p + 1].value, msg>>, <<>>>>]

\* {% trans STRING as NAME <modifier> %}
AsFirst ==
    /\ Len(stream) >= 5
    /\ stream[2].type = TOKEN_STRING
    /\ TestName(stream[3], "as")
    /\ stream[4].type = TOKEN_NAME
    /\ IsModifierAt(5)
    /\ Len(stream) = 5 + ModifierLen(5)
    /\ stream[Len(stream)].type = TOKEN_BLOCK_END

\* {% trans STRING <modifier> as NAME %}
AsLast ==
    /\ Len(stream) >= 3
    /\ stream[2].type = TOKEN_STRING
    /\ IsModifierAt(3)
    /\ Len(stream) = 3 + ModifierLen(3) + 2
    /\ TestName(stream[3 + ModifierLen(3)], "as")
    /\ stream[4 + ModifierLen(3)].type = TOKEN_NAME
    /\ stream[Len(stream)].type = TOKEN_BLOCK_END

\* C10: 'as NAME' before noop or context STRING and 'as NAME' after it are
\* both accepted, and both compile to the same Assign (up to line numbers)
C10_AsComposesWithModifier ==
    /\ AsFirst =>
         /\ pc # "failed"
         /\ pc = "done" =>
              /\ pos = Len(stream)
              /\ AssignEssence(Get(result))
                   = ExpectedAssign(stream[2].value, stream[4].value, 5)
    /\ AsLast =>
         /\ pc # "failed"
         /\ pc = "done" =>
              /\ pos = Len(stream)
              /\ AssignEssence(Get(result))
                   = ExpectedAssign(stream[2].value, stream[4 + ModifierLen(3)].value, 3)

\* {% trans 'm' as v noop %} has compiled to the assignment of 'm' to v
C10_Witness ==
    /\ pc = "done"
    /\ AsFirst
    /\ TestName(stream[5], "noop")
    /\ result = Some(Assign(Name("v", "store", 4), Const("m", 2), 1))

\* ------------------------------------------------------------ blocktrans tag: properties

InBody == pc \in {"bt_body", "bt_emit", "done", "failed"} /\ "body" \in DOMAIN loc

\* NAME = value at position p
IsBinding(s, p) ==
    /\ Current(s, p).type = TOKEN_NAME
    /\ Current(s, p + 1).type = TOKEN_ASSIGN
    /\ IsAtom(Current(s, p + 2))

\* the position after the bindings that begin at p
RECURSIVE BindingsEnd(_, _)
BindingsEnd(s, p) == IF IsBinding(s, p) THEN BindingsEnd(s, p + 3) ELSE p

\* the bindings at positions p..e-1: name and value of each
Bindings(s, p, e) ==
    [i \in 1..((e - p) \div 3) |->
        <<s[p + 3 * (i - 1)].value, AtomNode(s[p + 3 * (i - 1) + 2])>>]

\* the clauses of the header grammar, trimmed | asvar NAME | with NAME=value..
\* | count NAME=value | context STRING, read in whatever order from position
\* p of s up to the first token that begins none: the kind of each, the
\* position of its first token and the position after its last
RECURSIVE RefClauses(_, _)
RefClauses(s, p) ==
    LET tok == Current(s, p)
        clause(k, e) == <<[kind |-> k, at |-> p, end |-> e]>> \o RefClauses(s, e)
    IN IF TestName(tok, "trimmed") THEN clause("trimmed", p + 1)
       ELSE IF TestName(tok, "asvar") /\ Current(s, p + 1).type = TOKEN_NAME
       THEN clause("asvar", p + 2)
       ELSE IF TestName(tok, "with") /\ IsBinding(s, p + 1)
       THEN clause("with", BindingsEnd(s, p + 1))
       ELSE IF TestName(tok, "count") /\ IsBinding(s, p + 1)
       THEN clause("count", p + 4)
       ELSE IF TestName(tok, "context") /\ Current(s, p + 1).type = TOKEN_STRING
       THEN clause("context", p + 2)
       ELSE <<>>

ClausesEnd(cl) == IF cl = <<>> THEN 2 ELSE cl[Len(cl)].end
ClauseOf(cl, k) == cl[CHOOSE i \in 1..Len(cl) : cl[i].kind = k]

\* the header of the tag in s, read by RefClauses: its clauses; the position
\* after them; is it {% blocktrans, clauses of different kinds, %}; are the
\* clauses in the order trimmed, asvar, with, count, context; and the values
\* of the clauses, whatever their order
Header(s) ==
    LET cl == RefClauses(s, 2)
        has(k) == HasKind(cl, k)
    IN [clauses |-> cl,
        end |-> ClausesEnd(cl),
        isClauseHeader |->
            /\ TestName(s[1], "blocktrans")
            /\ \A i, j \in 1..Len(cl) : cl[i].kind = cl[j].kind => i = j
            /\ Current(s, ClausesEnd(cl)).type = TOKEN_BLOCK_END,
        inOrder |->
            \A i, j \in 1..Len(cl) :
                i < j => ClauseRank(cl[i].kind) < ClauseRank(cl[j].kind),
        trimmed |-> has("trimmed"),
        as_var |-> IF has("asvar")
                   THEN Some(Name(s[ClauseOf(cl, "asvar").at + 1].value, "store",
                                  ClauseOf(cl, "asvar").at + 1))
                   ELSE None,
        with_vars |-> IF has("with")
                      THEN Bindings(s, ClauseOf(cl, "with").at + 1,
                                    ClauseOf(cl, "with").end)
                      ELSE <<>>,
        count |-> IF has("count")
                  THEN Some(Bindings(s, ClauseOf(cl, "count").at + 1,
                                     ClauseOf(cl, "count").end)[1])
                  ELSE None,
        context |-> IF has("context")
                    THEN Some(s[ClauseOf(cl, "context").at + 1].value)
                    ELSE None]

HeaderParsedAsExpected(h) ==
    /\ pc = "failed" => pos > h.end
    /\ InBody =>
         /\ loc.trimmed = h.trimmed
         /\ loc.as_var = h.as_var
         /\ loc.with_vars = h.with_vars
         /\ loc.count = h.count
         /\ loc.context = h.context

\* C2: a header of clauses of different kinds, in any order, is accepted (no
\* failure before the body) and parsed to the values of its clauses, the
\* same for every order
C2_HeaderOrderInsensitive ==
    LET h == Header(stream)
    IN h.isClauseHeader => HeaderParsedAsExpected(h)

\* the header of C2 in the one order trimmed, asvar, with, count, context
C2_HeaderInOrder ==
    LET h == Header(stream)
    IN h.isClauseHeader /\ h.inOrder => HeaderParsedAsExpected(h)

\* the pieces of a well-formed body from position p: text, {{ NAME }},
\* {% plural %} and {% endblocktrans: the position after the last piece
RECURSIVE PiecesEnd(_, _)
PiecesEnd(s, p) ==
    LET tok == Current(s, p)
    IN IF tok.type = TOKEN_DATA THEN PiecesEnd(s, p + 1)
       ELSE IF /\ tok.type = TOKEN_VARIABLE_BEGIN
               /\ Current(s, p + 1).type = TOKEN_NAME
               /\ Current(s, p + 2).type = TOKEN_VARIABLE_END
       THEN PiecesEnd(s, p + 3)
       ELSE p

IsPluralAt(s, p) ==
    /\ Current(s, p).type = TOKEN_BLOCK_BEGIN
    /\ TestName(Current(s, p + 1), "plural")
    /\ Current(s, p + 2).type = TOKEN_BLOCK_END
IsEndAt(s, p) ==
    /\ Current(s, p).type = TOKEN_BLOCK_BEGIN
    /\ TestName(Current(s, p + 1), "endblocktrans")

\* the body of the tag in s, after the header that ends at position e: it
\* begins with text and variables up to position singularEnd, where a
\* {% plural %} marker, the {% endblocktrans or the end of the template is;
\* after a marker, text and variables up to position pluralEnd
Body(s, e) ==
    LET se == PiecesEnd(s, e + 1)
    IN [start |-> e + 1,
        singularEnd |-> se,
        hasPlural |-> IsPluralAt(s, se),
        closed |-> IsEndAt(s, se),
        pluralEnd |-> IF IsPluralAt(s, se) THEN PiecesEnd(s, se + 3) ELSE se]

\* C5: after an accepted header without a count clause, a {% plural %}
\* marker in the body makes the parse fail with 'used plural without
\* specifying count'; after one with a count clause, a body closed by
\* {% endblocktrans with no {% plural %} before it makes the parse fail with
\* 'plural form not found'; in both cases no node is returned (both errors
\* are raised by parser.fail, as TemplateSyntaxError)
C5_CountAndPluralTogether ==
    LET h == Header(stream)
        b == Body(stream, h.end)
    IN h.isClauseHeader /\ h.inOrder =>
        /\ b.hasPlural /\ IsNone(h.count) =>
             /\ pc \notin {"bt_emit", "done"}
             /\ result = None
             /\ InBody => pos <= b.singularEnd + 2
             /\ pc = "failed" =>
                  /\ pos = b.singularEnd + 2
                  /\ error = Some(TemplateSyntaxError(
                                    "used plural without specifying count",
                                    stream[b.singularEnd + 2].lineno))
        /\ ~b.hasPlural /\ b.closed /\ ~IsNone(h.count) =>
             /\ pc # "done"
             /\ result = None
             /\ pc = "failed" =>
                  /\ pos = b.singularEnd + 2
                  /\ loc.body_singular = None
                  /\ error = Some(TemplateSyntaxError(
                                    "plural form not found",
                                    Current(stream, b.singularEnd + 2).lineno))

\* {% blocktrans count n=1 %}a{{ n }}{% endblocktrans %} has failed: no plural
C5_Witness ==
    /\ pc = "failed"
    /\ InBody
    /\ Header(stream).clauses = <<[kind |-> "count", at |-> 2, end |-> 6]>>
    /\ loc.body = <<<<"a">>, Placeholder("n")>>
    /\ error = Some(TemplateSyntaxError("plural form not found", 13))

\* the text of the pieces at positions p..q-1: every {{ NAME }} is %(NAME)s
RECURSIVE RefText(_, _, _)
RefText(s, p, q) ==
    IF p >= q THEN <<>>
    ELSE IF s[p].type = TOKEN_DATA THEN s[p].value \o RefText(s, p + 1, q)
    ELSE <<"%", "(", s[p + 1].value, ")", "s">> \o RefText(s, p + 3, q)

\* the names of the variables among the pieces at positions p..q-1
RefVars(s, p, q) ==
    {s[i + 1].value : i \in {j \in p..(q - 1) : s[j].type = TOKEN_VARIABLE_BEGIN}}

\* the names the header h binds
BoundNames(h) ==
    {h.with_vars[i][1] : i \in 1..Len(h.with_vars)}
        \cup (IF IsNone(h.count) THEN {} ELSE {Get(h.count)[1]})

\* the call in a compiled blocktrans tag
BtCall == IF IsNone(loc.as_var) THEN Get(result).nodes[1].expr ELSE Get(result).value.expr

SeqToSet(q) == {q[i] : i \in 1..Len(q)}

\* C6: in a compiled blocktrans tag the texts are the text of the body with
\* %(x)s where {{ x }} was (trimmed if the header says so); x is an implicit
\* binding exactly if neither with nor count binds it; the dictionary of
\* the call has the with bindings, the count binding and the implicit
\* bindings (a Name looked up in the render context), and nothing else
C6_PlaceholdersAndBindings ==
    pc = "done" /\ InBody =>
        LET h == Header(stream)
            b == Body(stream, h.end)
            text(t) == IF h.trimmed THEN Trimmed(t) ELSE t
            singular == RefText(stream, b.start, b.singularEnd)
            plural == RefText(stream, b.singularEnd + 3, b.pluralEnd)
            used == RefVars(stream, b.start, b.pluralEnd)
            implicit == used \ BoundNames(h)
            items == BtCall.kwargs[1].value.items
        IN /\ h.isClauseHeader /\ h.inOrder
           /\ IsEndAt(stream, b.pluralEnd) \/ Current(stream, b.pluralEnd).type = TOKEN_EOF
           /\ BtCall.func.name = "_make_blocktrans"
           /\ BtCall.args = IF b.hasPlural
                            THEN <<TemplateData(text(singular), 1),
                                   TemplateData(text(plural), 1)>>
                            ELSE <<TemplateData(text(singular), 1)>>
           /\ loc.additional_vars = implicit
           /\ BtCall.kwargs[1].key = "trans_vars"
           /\ Len(items) = Len(h.with_vars) + Cardinality(implicit)
                             + (IF IsNone(h.count) THEN 0 ELSE 1)
           /\ SeqToSet(items) =
                {Pair(Const(h.with_vars[i][1], 0), h.with_vars[i][2], 1) :
                    i \in 1..Len(h.with_vars)}
                \cup (IF IsNone(h.count) THEN {}
                      ELSE {Pair(Const(Get(h.count)[1], 0), Get(h.count)[2], 1)})
                \cup {Pair(Const(v, 0), Name(v, "load", 1), 1) : v \in implicit}

\* {% blocktrans with x=y %}a{{ n }}{{ x }}{% endblocktrans has compiled: n is
\* an implicit binding, x is not
C6_Witness ==
    /\ pc = "done"
    /\ InBody
    /\ loc.additional_vars = {"n"}
    /\ BtCall.args = <<TemplateData(<<"a", "%", "(", "n", ")", "s",
                                      "%", "(", "x", ")", "s">>, 1)>>
    /\ BtCall.kwargs[1].value.items =
         <<Pair(Const("x", 0), Name("y", "load", 5), 1),
           Pair(Const("n", 0), Name("n", "load", 1), 1)>>

\* ------------------------------------------------------------ trans tag: modifiers at most once

\* the position after the first j of the modifiers mods, which begin at 3
ModifiersEnd(mods, j) ==
    IF j = 0 THEN 3
    ELSE mods[j].at + (IF mods[j].kind = "noop" THEN 1 ELSE 2)

\* the tag is {% trans STRING and j modifiers, each a different one and not
\* both noop and context, and then a NAME that is none of noop, context, as
\* or is one of the j modifiers before it
UnexpectedAfter(mods, j) ==
    LET tok == Current(stream, ModifiersEnd(mods, j))
    IN /\ stream[2].type = TOKEN_STRING
       /\ \A a, b \in 1..j : a # b => mods[a].kind # mods[b].kind
       /\ ~(\E a, b \in 1..j : mods[a].kind = "noop" /\ mods[b].kind = "context")
       /\ tok.type = TOKEN_NAME
       /\ \/ tok.value \notin {"noop", "context", "as"}
          \/ \E a \in 1..j : mods[a].kind = tok.value

\* C11: a NAME where a modifier of the trans tag is expected that is none of
\* noop, context, as, or that is a modifier the tag already has, makes the
\* parse fail with "expected 'noop', 'context' or 'as'" at that token's line;
\* no node is returned, so a compiled tag has each modifier at most once
C11_ModifierAtMostOnce ==
    LET mods == Modifiers(stream, 3)
    IN \A j \in 0..Len(mods) :
          UnexpectedAfter(mods, j) =>
              LET p == ModifiersEnd(mods, j)
              IN /\ pc \notin {"trans_emit", "done"}
                 /\ result = None
                 /\ InTrans => pos <= p + 1
                 /\ pc = "failed" =>
                      /\ pos = p + 1
                      /\ error = Some(TemplateSyntaxError(
                                        "expected 'noop', 'context' or 'as'",
                                        stream[p].lineno))

\* {% trans 'm' as v noop as has failed at the second as
C11_Witness ==
    /\ pc = "failed"
    /\ InTrans
    /\ Len(stream) = 6
    /\ TestName(stream[3], "as")
    /\ TestName(stream[5], "noop")
    /\ TestName(stream[6], "as")
    /\ Len(Modifiers(stream, 3)) = 2
    /\ UnexpectedAfter(Modifiers(stream, 3), 2)
    /\ loc.is_noop
    /\ loc.as_var = Some(Name("v", "store", 4))
    /\ error = Some(TemplateSyntaxError("expected 'noop', 'context' or 'as'", 6))

\* ------------------------------------------------------------ _make_blocktrans: properties

InMakeBlocktrans == "singular" \in DOMAIN loc

\* C12: a call of _make_blocktrans invokes one lookup, chosen by which of
\* plural and context are given: ugettext(singular) with neither,
\* pgettext(context, singular) with context only, ungettext(singular,
\* plural, count) with plural only, npgettext(context, singular, plural,
\* count) with both; count is the value trans_vars binds to the count name,
\* as bound and not as finalized, and never the name
C12_OneLookupByFields ==
    InMakeBlocktrans =>
        /\ pc \in {"make_blocktrans", "done"}
        /\ pc = "done" =>
             LET call == Get(result)
                 count == loc.trans_vars[Get(loc.count_var)]
             IN /\ call.lookup \in {"ugettext", "pgettext", "ungettext", "npgettext"}
                /\ call.lookup = "ugettext" <=> IsNone(loc.plural) /\ IsNone(loc.context)
                /\ call.lookup = "pgettext" <=> IsNone(loc.plural) /\ ~IsNone(loc.context)
                /\ call.lookup = "ungettext" <=> ~IsNone(loc.plural) /\ IsNone(loc.context)
                /\ call.lookup = "npgettext" <=> ~IsNone(loc.plural) /\ ~IsNone(loc.context)
                /\ call.singular = loc.singular
                /\ call.plural = loc.plural
                /\ call.context = loc.context
                /\ call.count = IF IsNone(loc.plural) THEN None ELSE Some(count)
                /\ ~IsNone(call.count) => Get(call.count) \in 0..MaxCount

\* _make_blocktrans('a', 'b', context='c', trans_vars={'n': 2, 'x': 0},
\* count_var='n') under a finalize has called npgettext('c', 'a', 'b', 2)
C12_Witness ==
    /\ InMakeBlocktrans
    /\ pc = "done"
    /\ loc.finalize = Some("finalize")
    /\ DOMAIN loc.trans_vars = {"n", "x"}
    /\ result = Some(Lookup("npgettext", Some("c"), <<"a">>, Some(<<"b">>), Some(2),
                            [k \in {"n", "x"} |->
                                IF k = "n" THEN ApplyFinalize(2) ELSE ApplyFinalize(0)]))

\* ------------------------------------------------------------ DjangoCompat: properties

\* the class among those DjangoCompat is composed of that declares the tag
Owner(name) == CHOOSE cls \in CompatBases : name \in Tags(cls)

\* C13: the tags of DjangoCompat are the union of the tags of the classes it
\* is composed of, and for a tag of that set DjangoCompat.parse enters the
\* parse method of the class that declares the tag with the stream where it
\* was: on the tag name, nothing consumed, nothing returned or raised
C13_DispatchKeepsCursor ==
    [][pc = "compat_parse" =>
         LET name == Current(stream, pos).value
         IN /\ CompatTags = UNION {Tags(cls) : cls \in CompatBases}
            /\ name \in CompatTags
            /\ pc' = ParseOf(Owner(name))
            /\ pos' = pos
            /\ Current(stream', pos').value = name
            /\ stream' = stream
            /\ loc' = loc
            /\ result' = None
            /\ error' = None]_vars

\* {% now .. has been handed to DjangoNow.parse, the stream on the tag name
C13_Witness ==
    /\ pc = "now_parse"
    /\ pos = 1
    /\ Len(stream) >= 1
    /\ TestName(stream[1], "now")
    /\ tag_class["now"] = "DjangoNow"
    /\ result = None
    /\ error = None

\* ------------------------------------------------------------ DjangoL10n: properties

\* localize(template_localtime(existing(v))), each of the three only if
\* enabled or installed
ExpectedFinalized(use_tz, use_l10n, existing, v) ==
    LET e == IF IsNone(existing) THEN v ELSE Apply(Get(existing), v)
        t == IF use_tz THEN Append(e, "template_localtime") ELSE e
    IN IF use_l10n THEN Append(t, "localize") ELSE t

\* C15: after DjangoL10n.__init__ the finalize of the environment computes,
\* for every value, localize(template_localtime(existing(v))): the finalize
\* that was installed first and on the value itself, then template_localtime
\* if USE_TZ, then localize if USE_L10N; with neither setting the finalize of
\* the environment is the one it was
C15_FinalizeComposition ==
    [][loc'.installs = loc.installs + 1 =>
         /\ ~loc.USE_TZ /\ ~loc.USE_L10N => loc'.finalize = loc.finalize
         /\ loc.USE_TZ \/ loc.USE_L10N =>
              /\ ~IsNone(loc'.finalize)
              /\ \A v \in Values :
                    Apply(Get(loc'.finalize), v) =
                        ExpectedFinalized(loc.USE_TZ, loc.USE_L10N, loc.finalize, v)]_vars

\* with both settings and a finalize installed before, the environment
\* prints localize(template_localtime(existing('a')))
C15_Witness ==
    /\ pc = "done"
    /\ "installs" \in DOMAIN loc
    /\ loc.installs = 1
    /\ loc.USE_TZ /\ loc.USE_L10N
    /\ result = Some([value |-> <<"a">>,
                      printed |-> <<"a", "existing", "template_localtime", "localize">>])

\* ------------------------------------------------------------ DjangoCompat construction: properties

InCompatInit == "extra" \in DOMAIN loc

\* the tag sets of the members of the class constructed: those of the bases
\* of DjangoCompat, then those of the further bases
MemberTags ==
    LET bases == <<"DjangoCsrf", "DjangoI18n", "DjangoL10n", "DjangoNow",
                   "DjangoStatic", "DjangoUrl">>
    IN [i \in 1..Len(bases) |-> Tags(bases[i])] \o loc.extra

PairwiseDisjoint(sets) ==
    \A i, j \in 1..Len(sets) : i # j => sets[i] \cap sets[j] = {}

Min(S) == CHOOSE x \in S : \A y \in S : x <= y
Max(S) == CHOOSE x \in S : \A y \in S : x >= y

\* t[a..b] without the whitespace at its ends
Inner(t, a, b) ==
    LET solid == {i \in a..b : ~IsSpace(t[i])}
    IN IF solid = {} THEN <<>> ELSE SubSeq(t, Min(solid), Max(solid))

\* the text t, line by line: the lines are what lies between two line
\* breaks (or an end of t); each is taken without the whitespace at its
\* ends; the empty ones before the first and after the last that is not
\* empty are left out; the others are put one after the other with one
\* space between them
TrimmedByLines(t) ==
    LET breaks == {0, Len(t) + 1} \cup {i \in 1..Len(t) : t[i] = "\n"}
        starts == breaks \ {Len(t) + 1}
        line(b) == Inner(t, b + 1, Min({c \in breaks : c > b}) - 1)
        full == {b \in starts : line(b) # <<>>}
        kept == {b \in starts : b >= Min(full) /\ b <= Max(full)}
        RECURSIVE join(_)
        join(S) == IF S = {} THEN <<>>
                   ELSE IF Cardinality(S) = 1 THEN line(Min(S))
                   ELSE line(Min(S)) \o <<" ">> \o join(S \ {Min(S)})
    IN IF full = {} THEN <<>> ELSE join(kept)

\* C16: a compiled blocktrans tag with trimmed has, for its singular text and
\* for its plural text, the text of the body with the whitespace at its ends
\* removed, split into lines, each line without the whitespace at its ends,
\* the lines joined by single spaces; without trimmed it has the texts of
\* the body as they are
C16_TrimmedTexts ==
    pc = "done" /\ InBody =>
        LET h == Header(stream)
            b == Body(stream, h.end)
            singular == RefText(stream, b.start, b.singularEnd)
            plural == RefText(stream, b.singularEnd + 3, b.pluralEnd)
            text(t) == IF h.trimmed THEN TrimmedByLines(t) ELSE t
        IN /\ loc.trimmed = h.trimmed
           /\ Len(BtCall.args) = IF b.hasPlural THEN 2 ELSE 1
           /\ BtCall.args[1].data = text(singular)
           /\ b.hasPlural => BtCall.args[2].data = text(plural)

\* {% blocktrans trimmed %}\n b\na\n b\n{% endblocktrans has compiled to 'b a b'
C16_Witness ==
    /\ pc = "done"
    /\ InBody
    /\ loc.trimmed
    /\ JoinText(loc.body) = <<"\n", " ", "b", "\n", "a", "\n", " ", "b", "\n">>
    /\ BtCall.args = <<TemplateData(<<"b", " ", "a", " ", "b">>, 1)>>

\* ------------------------------------------------------------ blocktrans end of template: properties

\* C17: a blocktrans tag whose body runs to the end of the template with no
\* {% endblocktrans returns no node: the parse fails, at the end of the
\* template, with 'unexpected end of template, expected endblocktrans tag'
C17_UnterminatedFails ==
    LET h == Header(stream)
        b == Body(stream, h.end)
    IN /\ TestName(stream[1], "blocktrans")
       /\ h.isClauseHeader
       /\ h.inOrder
       /\ Current(stream, b.pluralEnd).type = TOKEN_EOF
       => /\ pc # "done"
          /\ result = None
          /\ pc = "failed" /\ Current(stream, pos).type = TOKEN_EOF =>
               error = Some(TemplateSyntaxError(
                              "unexpected end of template, expected endblocktrans tag",
                              Current(stream, pos).lineno))

\* ------------------------------------------------------------ termination: properties

Terminated == pc \in {"done", "failed"}

\* the loops: the arguments of url, the modifiers of trans, the bindings
\* after with and the body of blocktrans
InLoop == pc \in {"url_loop", "trans_loop", "bt_with_loop", "bt_body"}

\* an iteration that stays in its loop has consumed a token, or it is the
\* iteration of the url loop that sets the mode, which happens once
Progress ==
    InLoop /\ pc' = pc =>
        \/ pos' > pos
        \/ /\ pc = "url_loop"
           /\ pos' = pos
           /\ IsNone(loc.args) /\ IsNone(loc.kwargs)
           /\ ~(IsNone(loc'.args) /\ IsNone(loc'.kwargs))

\* C18: every parse ends, with a node returned or with an error raised, and
\* never both; each iteration of a loop that does not leave the loop consumes
\* a token, but for the one iteration of the url loop that decides the mode
C18_ParseTerminates ==
    /\ [][Progress]_vars
    /\ [](Terminated => (pc = "done" <=> ~IsNone(result)) /\ (pc = "failed" <=> ~IsNone(error)))
    /\ <>Terminated

\* {% url 'v' 'a' %} has compiled: the parse is over, after an iteration that
\* decided the mode and consumed nothing and one that consumed the argument
C18_Witness ==
    /\ pc = "done"
    /\ Len(stream) = 4
    /\ TestName(stream[1], "url")
    /\ stream[4].type = TOKEN_BLOCK_END
    /\ pos = 4
    /\ "args" \in DOMAIN loc
    /\ loc.args = Some(<<Const("a", 3)>>)
    /\ IsNone(loc.kwargs)
    /\ ~IsNone(result)

====
